---- MODULE Spec2Model ----
(***************************************************************************)
(* Design Gym: the client-side quiz session engine (QuizContent) - session *)
(* selection, option placement, the coin ledger, the modal-driven state    *)
(* machine and the automatic leaderboard submission - together with the    *)
(* leaderboard API route, the landing page and the leaderboard page.       *)
(***************************************************************************)
EXTENDS Integers, Sequences, FiniteSets, TLC

VARIABLES
    catalog,                \* the imported question catalog (`questions`)
    seed, stride,           \* the Math.random() tape used by the session selector
    page,                   \* "unmounted" | "quiz" | "crashed"
    selectorCalls,          \* number of getRandomizedQuestions invocations so far
    sessionQuestions,       \* the session list: references to catalog entries
    currentQuestionIndex,
    selectedAnswer,         \* "left" | "right" | "null"
    showExplanation,
    showLevelCompleteModal,
    completedLevel,         \* "beginner" | "mid" | "expert" | "null"
    showInstructionModal,
    showNameInputModal,
    coins,
    answeredQuestions,
    startTime,              \* NullTime or a clock value
    endTime,                \* NullTime or a clock value
    playerName,             \* sequence of characters
    submittingLeaderboard,
    shuffledOptions,        \* [leftOption, rightOption, correctAnswer]
    completionTimer,        \* TRUE while the 500 ms setTimeout of handleSelect is pending
    effectPending,          \* TRUE while the auto-submit useEffect is scheduled to run
    request,                \* NoRequest or the body of the POST in flight
    lastOutcome,            \* NoOutcome or the outcome the last submitEntry finished with
    notice,                 \* the alert() shown by the last submitEntry: "none" | ...
    now,                    \* Date.now(), in milliseconds; advanced by the 500 ms timer
    runs,                   \* history: number of the run being played (1 + Start Overs)
    posts,                  \* history: POST requests issued during the current run
    completedAt,            \* history: clock value at which the current run was completed
    correctBefore,          \* history: indices below the current one answered correctly
    correctHere,            \* history: the current index has been answered correctly
    backend,                \* which handler serves /api/leaderboard, and its configuration
    store,                  \* the stored leaderboard entries, in insertion order
    response,               \* the response to the last request to /api/leaderboard
    serverClock,            \* Date.now() of the server; advanced by every accepted POST
    homePage,               \* landing page: "unmounted" | "mounted"
    playerHandles,          \* landing page: the handles of the social-proof strip
    loadingHandles,
    handleIndex,
    handlesFetch,           \* landing page: "none" | "inflight" | "settled"
    boardPage,              \* leaderboard page: "unmounted" | "mounted"
    entries,                \* leaderboard page: the entries on display
    filter,                 \* leaderboard page: "all" | "beginner" | "mid" | "expert"
    loading,
    boardError,             \* leaderboard page: `error`, "null" or a message
    boardEffect,            \* leaderboard page: TRUE while the [filter] effect is due
    fetches,                \* leaderboard page: the fetches in flight, oldest first
    entriesFor,             \* history: the filter the entries on display were asked for
    shCaller,               \* one call of shuffleArray: "array" | "options" (from shuffleOptions)
    shArray,                \* shuffleArray: the argument `array`
    shShuffled,             \* shuffleArray: the local `shuffled`
    shI,                    \* shuffleArray: the loop index i
    shPc,                   \* shuffleArray: "idle" | "loop" | "returned"
    shDraws,                \* history: the j drawn at every loop index so far
    shResult,               \* what shuffleOptions returned, "null" otherwise
    reqPc,                  \* file-backed route: where the handler of each POST stands
    reqBody,                \* file-backed route: req.body of each POST
    reqEntries,             \* file-backed route: the local `entries` of each handler
    reqStatus,              \* file-backed route: status answered to each POST, 0 before
    pool,                   \* lib/db: the module-level handle, NoPool or a Pool object
    poolEvents,             \* lib/db: per Pool object constructed, the 'error' events it has emitted
    databaseUrl,            \* lib/db: whether process.env.DATABASE_URL is set
    poolCalls,              \* history: results of the getDbPool calls since the last reset
    poolQueries             \* lib/db: per Pool object, the queries awaiting db.query(...)

vars == <<catalog, seed, stride, page, selectorCalls, sessionQuestions,
          currentQuestionIndex, selectedAnswer, showExplanation,
          showLevelCompleteModal, completedLevel, showInstructionModal,
          showNameInputModal, coins, answeredQuestions, startTime, endTime,
          playerName, submittingLeaderboard, shuffledOptions, completionTimer,
          effectPending, request, lastOutcome, notice, now, runs, posts,
          completedAt, correctBefore, correctHere,
          backend, store, response, serverClock,
          homePage, playerHandles, loadingHandles, handleIndex, handlesFetch,
          boardPage, entries, filter, loading, boardError, boardEffect, fetches,
          entriesFor,
          shCaller, shArray, shShuffled, shI, shPc, shDraws, shResult,
          reqPc, reqBody, reqEntries, reqStatus,
          pool, poolEvents, databaseUrl, poolCalls, poolQueries>>

\* the state of the leaderboard API route
serverVars == <<backend, store, response, serverClock>>

\* everything that is not the quiz page's own state
\* the state of the landing page
homeVars == <<homePage, playerHandles, loadingHandles, handleIndex, handlesFetch>>

\* the state of the leaderboard page
boardVars == <<boardPage, entries, filter, loading, boardError, boardEffect, fetches,
               entriesFor>>

\* one call of shuffleArray looked at on its own
shuffleVars == <<shCaller, shArray, shShuffled, shI, shPc, shDraws, shResult>>

\* state of the helpers and modules that is looked at on its own
\* concurrent POST requests to the file-backed route
requestVars == <<reqPc, reqBody, reqEntries, reqStatus>>

\* the connection pool module
poolVars == <<pool, poolEvents, databaseUrl, poolCalls, poolQueries>>

moduleVars == <<shuffleVars, requestVars, poolVars>>

outsideQuiz == <<serverVars, homeVars, boardVars, moduleVars>>

selectorVars == <<catalog, seed, stride>>

quizVars == <<currentQuestionIndex, selectedAnswer, showExplanation,
              showLevelCompleteModal, completedLevel, showInstructionModal,
              showNameInputModal, coins, answeredQuestions, startTime, endTime,
              playerName, submittingLeaderboard, shuffledOptions,
              completionTimer, effectPending, request, lastOutcome, notice,
              now, runs, posts, completedAt, correctBefore, correctHere>>

(***************************************************************************)
(* Bounds                                                                  *)
(***************************************************************************)
\* Math.random() is sampled from the values x / RandMod, x in 0..RandMod-1.
RandMod == 7
\* Number of entries the leaderboard API accepts in one behaviour.
MaxPosts == 2

\* Number of leaderboard fetches that can be in flight at once.
MaxFetches == 2

\* Number of runs a player plays (Start Over is pressed at most MaxRuns - 1 times).
MaxRuns == 2

Null == "null"
\* the null of a `number | null` state (startTime, endTime)
NullTime == -1
NoRequest == [kind |-> "none"]
NoOutcome == [kind |-> "none"]

(***************************************************************************)
(* Configuration                                                           *)
(***************************************************************************)
Levels == <<"beginner", "mid", "expert">>

QUESTIONS_PER_LEVEL == [beginner |-> 5, mid |-> 7, expert |-> 8]

REQUIRED_POOL_COMPOSITION ==
    [beginner |-> [image |-> 15, typeface |-> 5],
     mid      |-> [image |-> 12, typeface |-> 8],
     expert   |-> [image |-> 13, typeface |-> 7]]

COIN_REWARD == 100

(***************************************************************************)
(* The catalog.  The data file is not part of the sources at hand; the     *)
(* selector is exercised on a catalog with the documented composition and  *)
(* on damaged variants of it.                                              *)
(***************************************************************************)
NoDifficulty == ""

\* The fields of a Question the selector reads.
Question(d, t) == [difficulty |-> d, type |-> t]

Block(n, d, t) == [k \in 1..n |-> Question(d, t)]

\* 60 questions: every tier's image questions followed by its typeface ones.
ValidCatalog ==
    Block(15, "beginner", "image") \o Block(5, "beginner", "typeface") \o
    Block(12, "mid", "image")      \o Block(8, "mid", "typeface") \o
    Block(13, "expert", "image")   \o Block(7, "expert", "typeface")

\* The same questions with the two types interleaved inside every tier.
MixedCatalog ==
    [k \in 1..60 |->
        LET base == CHOOSE b \in {0, 20, 40} : k > b /\ k <= b + 20
            p == k - base
        IN  ValidCatalog[base + ((p * 7) % 20) + 1]]

Positions == {1, 16, 20, 21, 40, 41, 60}

Untag(c, k) == [c EXCEPT ![k].difficulty = NoDifficulty]
Retype(c, k) ==
    [c EXCEPT ![k].type = IF c[k].type = "image" THEN "typeface" ELSE "image"]
Retier(c, k) ==
    [c EXCEPT ![k].difficulty = IF c[k].difficulty = "mid" THEN "expert" ELSE "mid"]
Drop(c, k) == SubSeq(c, 1, k - 1) \o SubSeq(c, k + 1, Len(c))
Extra(c, d, t) == Append(c, Question(d, t))

DamagedCatalogs ==
    {Untag(ValidCatalog, k) : k \in Positions} \cup
    {Retype(ValidCatalog, k) : k \in Positions} \cup
    {Retier(ValidCatalog, k) : k \in Positions} \cup
    {Drop(ValidCatalog, k) : k \in Positions} \cup
    {Extra(ValidCatalog, d, t) :
        d \in {"beginner", "mid", "expert", "legendary", NoDifficulty},
        t \in {"image", "typeface"}} \cup
    {Untag(Retype(MixedCatalog, k), k) : k \in {1, 60}}

Catalogs == {ValidCatalog, MixedCatalog} \cup DamagedCatalogs

(***************************************************************************)
(* Math.random()                                                           *)
(***************************************************************************)
\* The k-th value of the tape is Rand(s, d, k) / RandMod, a number in [0, 1).
Rand(s, d, k) == (s + k * d) % RandMod

\* Math.floor(Math.random() * (i + 1)) for a draw of x / m
FloorScale(x, m, i) == (x * (i + 1)) \div m

\* The indices j drawn by one shuffle of n elements that starts at tape
\* position `offset`: the loop runs i = n-1 down to 1 and draws once per i.
TapeDraws(s, d, offset, n) ==
    [i \in 1..(n - 1) |-> FloorScale(Rand(s, d, offset + (n - 1 - i)), RandMod, i)]

DrawCount(n) == IF n > 1 THEN n - 1 ELSE 0

(***************************************************************************)
(* shuffleArray: Fisher-Yates; js[i] is the index drawn at loop index i    *)
(* (0-based indices, as in the source).                                    *)
(***************************************************************************)
SwapOverwrites(a, i, j) == [a EXCEPT ![i + 1] = a[j + 1]]

Swap(a, i, j) == [a EXCEPT ![i + 1] = a[j + 1], ![j + 1] = a[i + 1]]

RECURSIVE ShuffleLoop(_, _, _)
ShuffleLoop(shuffled, i, js) ==
    IF i > 0
    THEN ShuffleLoop(Swap(shuffled, i, js[i]), i - 1, js)
    ELSE shuffled

shuffleArray(array, js) == ShuffleLoop(array, Len(array) - 1, js)

(***************************************************************************)
(* Session selector                                                        *)
(***************************************************************************)
\* A Question[] holds references to the catalog's objects: a reference is the
\* position of the object in the catalog.
Refs(questions) == [k \in 1..Len(questions) |-> k]

\* TRUE when validateQuestions returns, FALSE when it throws
validateQuestions(questions) ==
    LET missingDifficulty ==
            SelectSeq(Refs(questions), LAMBDA q : questions[q].difficulty = NoDifficulty)
    IN  ~(Len(missingDifficulty) > 0)

validatePoolCompositionLax(difficulty, imageQuestions, typefaceQuestions) ==
    LET required == REQUIRED_POOL_COMPOSITION[difficulty]
    IN  ~(Len(imageQuestions) # required.image /\ Len(typefaceQuestions) # required.typeface)

\* TRUE when validatePoolComposition returns, FALSE when it throws
validatePoolComposition(difficulty, imageQuestions, typefaceQuestions) ==
    LET required == REQUIRED_POOL_COMPOSITION[difficulty]
        actualImage == Len(imageQuestions)
        actualTypeface == Len(typefaceQuestions)
    IN  ~(actualImage # required.image \/ actualTypeface # required.typeface)

Thrown == [threw |-> TRUE, value |-> <<>>]
Returned(v) == [threw |-> FALSE, value |-> v]

\* allShuffled.slice(0, count)
Slice(allShuffled, count) ==
    SubSeq(allShuffled, 1, IF count < Len(allShuffled) THEN count ELSE Len(allShuffled))

\* One iteration of the loop over the levels; `offset` is the tape position
\* before the iteration.
SelectLevel(questions, level, s, d, offset) ==
    LET levelQuestions ==
            SelectSeq(Refs(questions), LAMBDA q : questions[q].difficulty = level)
        imageQuestions == SelectSeq(levelQuestions, LAMBDA q : questions[q].type = "image")
        typefaceQuestions ==
            SelectSeq(levelQuestions, LAMBDA q : questions[q].type = "typeface")
        nI == Len(imageQuestions)
        nT == Len(typefaceQuestions)
        shuffledImage == shuffleArray(imageQuestions, TapeDraws(s, d, offset, nI))
        shuffledTypeface ==
            shuffleArray(typefaceQuestions, TapeDraws(s, d, offset + DrawCount(nI), nT))
        allShuffled ==
            shuffleArray(shuffledImage \o shuffledTypeface,
                         TapeDraws(s, d, offset + DrawCount(nI) + DrawCount(nT), nI + nT))
        count == QUESTIONS_PER_LEVEL[level]
    IN  IF \E k \in 1..Len(questions) : questions[k].difficulty = NoDifficulty
        THEN Thrown
        ELSE IF ~validatePoolComposition(level, imageQuestions, typefaceQuestions)
        THEN Thrown
        ELSE IF Len(allShuffled) < count
        THEN Thrown
        ELSE Returned(Slice(allShuffled, count))

LevelDraws(questions, level) ==
    LET levelQuestions ==
            SelectSeq(Refs(questions), LAMBDA q : questions[q].difficulty = level)
        nI == Len(SelectSeq(levelQuestions, LAMBDA q : questions[q].type = "image"))
        nT == Len(SelectSeq(levelQuestions, LAMBDA q : questions[q].type = "typeface"))
    IN  DrawCount(nI) + DrawCount(nT) + DrawCount(nI + nT)

RECURSIVE LevelLoop(_, _, _, _, _, _)
LevelLoop(questions, li, s, d, offset, selectedQuestions) ==
    IF li > Len(Levels)
    THEN Returned(selectedQuestions)
    ELSE LET r == SelectLevel(questions, Levels[li], s, d, offset)
         IN  IF r.threw
             THEN Thrown
             ELSE LevelLoop(questions, li + 1, s, d,
                            offset + LevelDraws(questions, Levels[li]),
                            selectedQuestions \o r.value)

getRandomizedQuestions(questions, s, d) ==
    IF ~validateQuestions(questions)
    THEN Thrown
    ELSE LevelLoop(questions, 1, s, d, 0, <<>>)

(***************************************************************************)
(* Strings are sequences of characters, so that trim() and includes() are  *)
(* computed and not assumed.                                               *)
(***************************************************************************)
IsSpace(c) == c \in {" "}

RECURSIVE TrimStart(_)
TrimStart(s) == IF s # <<>> /\ IsSpace(Head(s)) THEN TrimStart(Tail(s)) ELSE s

RECURSIVE TrimEnd(_)
TrimEnd(s) ==
    IF s # <<>> /\ IsSpace(s[Len(s)]) THEN TrimEnd(SubSeq(s, 1, Len(s) - 1)) ELSE s

\* String.prototype.trim
Trim(s) == TrimEnd(TrimStart(s))

\* String.prototype.includes
Includes(s, pat) ==
    \E k \in 0..(Len(s) - Len(pat)) : SubSeq(s, k + 1, k + Len(pat)) = pat

\* What is typed into the name field
NameInputs == {<<>>, <<" ">>, <<" ", "A", "l", " ">>}

\* The patterns of isNetworkError
PatFailedToFetch == <<"F", "a", "i", "l", "e", "d", " ", "t", "o", " ", "f", "e", "t", "c", "h">>
PatNetworkError == <<"N", "e", "t", "w", "o", "r", "k", "E", "r", "r", "o", "r">>
PatNetwork == <<"n", "e", "t", "w", "o", "r", "k">>
PatTimeout == <<"t", "i", "m", "e", "o", "u", "t">>
PatAborted == <<"a", "b", "o", "r", "t", "e", "d">>

\* Messages of the errors fetch rejects with, as worded by the common engines
MsgFailedToFetch == <<"F", "a", "i", "l", "e", "d", " ", "t", "o", " ", "f", "e", "t", "c", "h">>
MsgFirefox == <<"N", "e", "t", "w", "o", "r", "k", "E", "r", "r", "o", "r", " ", "w", "h", "e", "n", " ", "a", "t", "t", "e", "m", "p", "t", "i", "n", "g", " ", "t", "o", " ", "f", "e", "t", "c", "h", " ", "r", "e", "s", "o", "u", "r", "c", "e", ".">>
MsgLoadFailed == <<"L", "o", "a", "d", " ", "f", "a", "i", "l", "e", "d">>
\* message of the SyntaxError response.json() throws on a body that is not JSON
MsgJsonSyntax == <<"U", "n", "e", "x", "p", "e", "c", "t", "e", "d", " ", "t", "o", "k", "e", "n", " ", "<", " ", "i", "n", " ", "J", "S", "O", "N", " ", "a", "t", " ", "p", "o", "s", "i", "t", "i", "o", "n", " ", "0">>

ErrorMessages == {MsgFailedToFetch, MsgFirefox, MsgLoadFailed}

Statuses == {201, 400, 404, 500}

\* How a POST can end: a response (whose body matters only when the status is
\* 2xx) or a rejection of fetch.
Outcomes ==
    {[kind |-> "response", status |-> st, bodyParses |-> TRUE, message |-> <<>>] :
        st \in Statuses} \cup
    {[kind |-> "response", status |-> 201, bodyParses |-> FALSE, message |-> <<>>]} \cup
    {[kind |-> "throw", status |-> 0, bodyParses |-> FALSE, message |-> m] :
        m \in ErrorMessages}

(***************************************************************************)
(* Option randomizer                                                       *)
(***************************************************************************)
\* the two pictures of the question behind reference q
optionA(q) == <<q, "A">>
optionB(q) == <<q, "B">>

shuffleOptions(a, b, js) ==
    LET options == <<[value |-> a, isCorrect |-> TRUE],
                     [value |-> b, isCorrect |-> FALSE]>>
        shuffled == shuffleArray(options, js)
        leftIsCorrect == shuffled[1].isCorrect
    IN  [leftOption |-> shuffled[1].value,
         rightOption |-> shuffled[2].value,
         correctAnswer |-> IF leftIsCorrect THEN "left" ELSE "right"]

\* every outcome of the single draw j = floor(random() * 2) at loop index 1
OptionDraws == [1..1 -> 0..1]

shuffledOptionsEveryRender(oldQuestion, newQuestion, old) ==
    {shuffleOptions(optionA(newQuestion), optionB(newQuestion), js) : js \in OptionDraws}

\* useMemo(..., [currentQuestion]): the placement is recomputed only when the
\* question on display changes.
shuffledOptionsMemo(oldQuestion, newQuestion, old) ==
    IF newQuestion = oldQuestion
    THEN {old}
    ELSE {shuffleOptions(optionA(newQuestion), optionB(newQuestion), js) : js \in OptionDraws}

(***************************************************************************)
(* Derived values of a render                                              *)
(***************************************************************************)
currentQuestion == sessionQuestions[currentQuestionIndex + 1]

isLastQuestion == currentQuestionIndex = Len(sessionQuestions) - 1

totalQuestions == Len(sessionQuestions)

\* Math.round(x / y) for non-negative integers
RoundDiv(x, y) == (2 * x + y) \div (2 * y)

accuracyAsFraction(c, total) ==
    IF total > 0 THEN RoundDiv(c, total * 100) ELSE 0

accuracyOverQuestions(c, total) ==
    IF total > 0 THEN RoundDiv(c * 100, total) ELSE 0

\* Math.round((coins / maxCoins) * 100)
accuracyOf(c, total) ==
    IF total > 0 THEN RoundDiv(c * 100, total * 100) ELSE 0

accuracy == accuracyOf(coins, totalQuestions)

\* The three modals are full-screen overlays above the question.
NoModal == ~showInstructionModal /\ ~showNameInputModal /\ ~showLevelCompleteModal

NextOfferedUnanswered == page = "quiz" /\ NoModal /\ ~isLastQuestion

NextOfferedWithinTier ==
    page = "quiz" /\ NoModal /\ showExplanation /\ ~isLastQuestion
        /\ currentQuestionIndex \notin {4, 11}

\* {showExplanation && !isLastQuestion && <button onClick={handleNext}>}
NextOffered == page = "quiz" /\ NoModal /\ showExplanation /\ ~isLastQuestion

ProceedOfferedAtCompletion == page = "quiz" /\ showLevelCompleteModal

\* the Proceed buttons of the beginner and mid branches of the modal
ProceedOffered ==
    page = "quiz" /\ showLevelCompleteModal /\ completedLevel \in {"beginner", "mid"}

StartOverOffered ==
    page = "quiz" /\ showLevelCompleteModal /\ completedLevel = "expert"

(***************************************************************************)
(* Initial state: the module is loaded, QuizContent is not mounted yet.    *)
(***************************************************************************)
\* no request has been made to the API route yet
NoResponse == [method |-> "none", status |-> 0, kind |-> "none", rows |-> <<>>]

\* The rest of the application while only the quiz page is looked at.
\* useState(0), useState([]), useState(true) of Home; nothing fetched yet
HomeUnmounted ==
    /\ homePage = "unmounted"
    /\ playerHandles = <<>>
    /\ loadingHandles = TRUE
    /\ handleIndex = 0
    /\ handlesFetch = "none"

\* useState([]), useState('all'), useState(true), useState(null) of Leaderboard
BoardUnmounted ==
    /\ boardPage = "unmounted"
    /\ entries = <<>>
    /\ filter = "all"
    /\ loading = TRUE
    /\ boardError = Null
    /\ boardEffect = FALSE
    /\ fetches = <<>>
    /\ entriesFor = Null

\* no call of shuffleArray is being followed
ShuffleIdle ==
    /\ shCaller = "none"
    /\ shArray = <<>>
    /\ shShuffled = <<>>
    /\ shI = 0
    /\ shPc = "idle"
    /\ shDraws = <<>>
    /\ shResult = Null

\* no POST is being followed through the file-backed handler
RequestsIdle ==
    /\ reqPc = <<>>
    /\ reqBody = <<>>
    /\ reqEntries = <<>>
    /\ reqStatus = <<>>

\* the value null of the handle `pool` (Pool objects are numbered from 1)
NoPool == 0

\* let pool: Pool | null = null, and no call made
PoolIdle ==
    /\ pool = NoPool
    /\ poolEvents = <<>>
    /\ databaseUrl = TRUE
    /\ poolCalls = {}
    /\ poolQueries = <<>>

ModulesIdle == ShuffleIdle /\ RequestsIdle /\ PoolIdle

OutsideQuizIdle ==
    /\ backend = "file"
    /\ store = <<>>
    /\ response = NoResponse
    /\ serverClock = 1
    /\ HomeUnmounted
    /\ BoardUnmounted
    /\ ModulesIdle

InitQuiz ==
    /\ page = "unmounted"
    /\ selectorCalls = 0
    /\ sessionQuestions = <<>>
    /\ currentQuestionIndex = 0
    /\ selectedAnswer = Null
    /\ showExplanation = FALSE
    /\ showLevelCompleteModal = FALSE
    /\ completedLevel = Null
    /\ showInstructionModal = TRUE
    /\ showNameInputModal = FALSE
    /\ coins = 0
    /\ answeredQuestions = {}
    /\ startTime = NullTime
    /\ endTime = NullTime
    /\ playerName = <<>>
    /\ submittingLeaderboard = FALSE
    /\ shuffledOptions = Null
    /\ completionTimer = FALSE
    /\ effectPending = FALSE
    /\ request = NoRequest
    /\ lastOutcome = NoOutcome
    /\ notice = "none"
    /\ now = 1000
    /\ runs = 1
    /\ posts = 0
    /\ completedAt = NullTime
    /\ correctBefore = 0
    /\ correctHere = FALSE

Init ==
    /\ catalog \in {ValidCatalog, Untag(ValidCatalog, 1)}
    /\ seed = 3
    /\ stride = 2
    /\ InitQuiz
    /\ OutsideQuizIdle

\* Every catalog of the family under every tape.
SelInit ==
    /\ catalog \in Catalogs
    /\ seed \in 0..(RandMod - 1)
    /\ stride \in 0..(RandMod - 1)
    /\ InitQuiz
    /\ OutsideQuizIdle

(***************************************************************************)
(* Mounting: useState(() => getRandomizedQuestions()) and the first render *)
(***************************************************************************)
MountQuiz ==
    /\ page = "unmounted"
    /\ LET r == getRandomizedQuestions(catalog, seed, stride)
       IN  /\ ~r.threw
           /\ sessionQuestions' = r.value
           /\ shuffledOptions' \in
                {shuffleOptions(optionA(r.value[1]), optionB(r.value[1]), js) : js \in OptionDraws}
    /\ page' = "quiz"
    /\ selectorCalls' = selectorCalls + 1
    /\ effectPending' = TRUE
    /\ UNCHANGED <<outsideQuiz, selectorVars, currentQuestionIndex, selectedAnswer, showExplanation,
                   showLevelCompleteModal, completedLevel, showInstructionModal,
                   showNameInputModal, coins, answeredQuestions, startTime, endTime,
                   playerName, submittingLeaderboard, completionTimer, request,
                   lastOutcome, notice, now, runs, posts, completedAt,
                   correctBefore, correctHere>>

\* The initializer throws: the component never renders.
MountCrash ==
    /\ page = "unmounted"
    /\ getRandomizedQuestions(catalog, seed, stride).threw
    /\ page' = "crashed"
    /\ selectorCalls' = selectorCalls + 1
    /\ UNCHANGED <<outsideQuiz, selectorVars, sessionQuestions, quizVars>>

(***************************************************************************)
(* The question loop                                                       *)
(***************************************************************************)
CorrectCount(before, here) == before + (IF here THEN 1 ELSE 0)

CoinsAfterSelectAnyAnswer(isCorrect, has, prevCoins) ==
    IF ~has THEN prevCoins + COIN_REWARD ELSE prevCoins

CoinsAfterSelectPenalty(isCorrect, has, prevCoins) ==
    IF isCorrect /\ ~has THEN prevCoins + COIN_REWARD
    ELSE IF prevCoins >= COIN_REWARD THEN prevCoins - COIN_REWARD ELSE prevCoins

\* setCoins(prevCoins => prevCoins + 100), under its condition
CoinsAfterSelect(isCorrect, has, prevCoins) ==
    IF isCorrect /\ ~has THEN prevCoins + COIN_REWARD ELSE prevCoins

AnsweredAfterSelectCorrectOnly(isCorrect, has, prev, index) ==
    IF isCorrect /\ ~has THEN prev \cup {index} ELSE prev

\* setAnsweredQuestions(prev => new Set(prev).add(index)), in either branch
AnsweredAfterSelect(isCorrect, has, prev, index) ==
    IF isCorrect /\ ~has THEN prev \cup {index}
    ELSE IF ~isCorrect /\ ~has THEN prev \cup {index}
    ELSE prev

SelectGuardAlways(explained) == TRUE

\* the condition under which handleSelect acts at all
SelectGuard(explained) == ~explained

handleSelect(side) ==
    /\ page = "quiz"
    /\ NoModal
    /\ ~effectPending
    /\ IF SelectGuard(showExplanation)
       THEN LET isCorrect == side = shuffledOptions.correctAnswer
                has == currentQuestionIndex \in answeredQuestions
            IN  /\ selectedAnswer' = side
                /\ showExplanation' = TRUE
                /\ answeredQuestions' =
                      AnsweredAfterSelect(isCorrect, has, answeredQuestions, currentQuestionIndex)
                /\ coins' = CoinsAfterSelect(isCorrect, has, coins)
                /\ completionTimer' = (completionTimer \/ isLastQuestion)
                /\ effectPending' = (coins' # coins)
                /\ correctHere' = (correctHere \/ isCorrect)
                /\ shuffledOptions' \in
                      shuffledOptionsMemo(currentQuestion, currentQuestion, shuffledOptions)
                /\ UNCHANGED <<outsideQuiz, selectorVars, page, selectorCalls, sessionQuestions,
                               currentQuestionIndex, showLevelCompleteModal,
                               completedLevel, showInstructionModal,
                               showNameInputModal, startTime, endTime, playerName,
                               submittingLeaderboard, request,
                               lastOutcome, notice, now, runs, posts, completedAt,
                               correctBefore>>
       ELSE UNCHANGED vars

\* The callback of setTimeout(..., 500) set by the last question's answer.
CompletionTimerFires ==
    /\ page = "quiz"
    /\ completionTimer
    /\ ~effectPending
    /\ completionTimer' = FALSE
    /\ completedLevel' = "expert"
    /\ showLevelCompleteModal' = TRUE
    /\ now' = now + 500
    /\ completedAt' = now + 500
    /\ effectPending' = (completedLevel # "expert")
    /\ UNCHANGED <<outsideQuiz, selectorVars, page, selectorCalls, sessionQuestions,
                   currentQuestionIndex, selectedAnswer, showExplanation,
                   showInstructionModal, showNameInputModal, coins,
                   answeredQuestions, startTime, endTime, playerName,
                   submittingLeaderboard, shuffledOptions, request, lastOutcome,
                   notice, runs, posts, correctBefore, correctHere>>

\* Showing a checkpoint or the completion modal from handleNext
ShowModal(level) ==
    /\ completedLevel' = level
    /\ showLevelCompleteModal' = TRUE
    /\ effectPending' = (completedLevel # level)
    /\ completedAt' = IF level = "expert" THEN now ELSE completedAt
    /\ UNCHANGED <<currentQuestionIndex, selectedAnswer, showExplanation,
                   shuffledOptions, correctBefore, correctHere>>

handleNext ==
    /\ NextOffered
    /\ ~effectPending
    /\ IF currentQuestionIndex = 4 THEN ShowModal("beginner")
       ELSE IF currentQuestionIndex = 11 THEN ShowModal("mid")
       ELSE IF isLastQuestion THEN ShowModal("expert")
       ELSE /\ currentQuestionIndex' = currentQuestionIndex + 1
            /\ selectedAnswer' = Null
            /\ showExplanation' = FALSE
            /\ shuffledOptions' \in
                  shuffledOptionsMemo(currentQuestion,
                                      sessionQuestions[currentQuestionIndex + 2],
                                      shuffledOptions)
            /\ correctBefore' = CorrectCount(correctBefore, correctHere)
            /\ correctHere' = FALSE
            /\ UNCHANGED <<completedLevel, showLevelCompleteModal, effectPending,
                           completedAt>>
    /\ UNCHANGED <<outsideQuiz, selectorVars, page, selectorCalls, sessionQuestions,
                   showInstructionModal, showNameInputModal, coins,
                   answeredQuestions, startTime, endTime, playerName,
                   submittingLeaderboard, completionTimer, request, lastOutcome,
                   notice, now, runs, posts>>

handleProceedToNextLevel ==
    /\ ProceedOffered
    /\ ~effectPending
    /\ showLevelCompleteModal' = FALSE
    /\ completedLevel' = Null
    /\ IF isLastQuestion
       THEN /\ currentQuestionIndex' = 0
            /\ coins' = 0
            /\ answeredQuestions' = {}
            /\ correctBefore' = 0
       ELSE /\ currentQuestionIndex' = currentQuestionIndex + 1
            /\ correctBefore' = CorrectCount(correctBefore, correctHere)
            /\ UNCHANGED <<coins, answeredQuestions>>
    /\ selectedAnswer' = Null
    /\ showExplanation' = FALSE
    /\ correctHere' = FALSE
    /\ shuffledOptions' \in
          shuffledOptionsMemo(currentQuestion,
                              sessionQuestions[currentQuestionIndex' + 1],
                              shuffledOptions)
    /\ effectPending' = (completedLevel # Null \/ coins' # coins)
    /\ UNCHANGED <<outsideQuiz, selectorVars, page, selectorCalls, sessionQuestions,
                   showInstructionModal, showNameInputModal, startTime, endTime,
                   playerName, submittingLeaderboard, completionTimer, request,
                   lastOutcome, notice, now, runs, posts, completedAt>>

handleStartOverKeepsAnswers ==
    /\ StartOverOffered
    /\ ~effectPending
    /\ runs < MaxRuns
    /\ showLevelCompleteModal' = FALSE
    /\ completedLevel' = Null
    /\ currentQuestionIndex' = 0
    /\ coins' = 0
    /\ answeredQuestions' = answeredQuestions
    /\ selectedAnswer' = Null
    /\ showExplanation' = FALSE
    /\ shuffledOptions' \in
          shuffledOptionsMemo(currentQuestion, sessionQuestions[1], shuffledOptions)
    /\ effectPending' = (completedLevel # Null \/ coins # 0)
    /\ runs' = runs + 1
    /\ posts' = 0
    /\ completedAt' = NullTime
    /\ correctBefore' = 0
    /\ correctHere' = FALSE
    /\ UNCHANGED <<outsideQuiz, selectorVars, page, selectorCalls, sessionQuestions,
                   showInstructionModal, showNameInputModal, startTime, endTime,
                   playerName, submittingLeaderboard, completionTimer, request,
                   lastOutcome, notice, now>>

handleStartOver ==
    /\ StartOverOffered
    /\ ~effectPending
    /\ runs < MaxRuns
    /\ showLevelCompleteModal' = FALSE
    /\ completedLevel' = Null
    /\ currentQuestionIndex' = 0
    /\ coins' = 0
    /\ answeredQuestions' = {}
    /\ selectedAnswer' = Null
    /\ showExplanation' = FALSE
    /\ shuffledOptions' \in
          shuffledOptionsMemo(currentQuestion, sessionQuestions[1], shuffledOptions)
    /\ effectPending' = (completedLevel # Null \/ coins # 0)
    /\ runs' = runs + 1
    /\ posts' = 0
    /\ completedAt' = NullTime
    /\ correctBefore' = 0
    /\ correctHere' = FALSE
    /\ UNCHANGED <<outsideQuiz, selectorVars, page, selectorCalls, sessionQuestions,
                   showInstructionModal, showNameInputModal, startTime, endTime,
                   playerName, submittingLeaderboard, completionTimer, request,
                   lastOutcome, notice, now>>

(***************************************************************************)
(* The start-up modals                                                     *)
(***************************************************************************)
handleStartTraining ==
    /\ page = "quiz"
    /\ showInstructionModal
    /\ ~effectPending
    /\ showInstructionModal' = FALSE
    /\ showNameInputModal' = TRUE
    /\ UNCHANGED <<outsideQuiz, selectorVars, page, selectorCalls, sessionQuestions,
                   currentQuestionIndex, selectedAnswer, showExplanation,
                   showLevelCompleteModal, completedLevel, coins,
                   answeredQuestions, startTime, endTime, playerName,
                   submittingLeaderboard, shuffledOptions, completionTimer,
                   effectPending, request, lastOutcome, notice, now, runs, posts,
                   completedAt, correctBefore, correctHere>>

\* onChange of the name field
setPlayerName(value) ==
    /\ page = "quiz"
    /\ showNameInputModal
    /\ ~effectPending
    /\ playerName' = value
    /\ effectPending' = (value # playerName)
    /\ UNCHANGED <<outsideQuiz, selectorVars, page, selectorCalls, sessionQuestions,
                   currentQuestionIndex, selectedAnswer, showExplanation,
                   showLevelCompleteModal, completedLevel, showInstructionModal,
                   showNameInputModal, coins, answeredQuestions, startTime,
                   endTime, submittingLeaderboard, shuffledOptions,
                   completionTimer, request, lastOutcome, notice, now, runs,
                   posts, completedAt, correctBefore, correctHere>>

NameAcceptedUntrimmed(name) == name # <<>>

\* if (playerName.trim())
NameAccepted(name) == Trim(name) # <<>>

handleNameSubmit ==
    /\ page = "quiz"
    /\ showNameInputModal
    /\ ~effectPending
    /\ IF NameAccepted(playerName)
       THEN /\ showNameInputModal' = FALSE
            /\ startTime' = now
            /\ effectPending' = (startTime # now)
            /\ UNCHANGED <<outsideQuiz, selectorVars, page, selectorCalls, sessionQuestions,
                           currentQuestionIndex, selectedAnswer, showExplanation,
                           showLevelCompleteModal, completedLevel,
                           showInstructionModal, coins, answeredQuestions,
                           endTime, playerName, submittingLeaderboard,
                           shuffledOptions, completionTimer, request,
                           lastOutcome, notice, now, runs, posts, completedAt,
                           correctBefore, correctHere>>
       ELSE UNCHANGED vars

(***************************************************************************)
(* Automatic submission: useEffect(..., [completedLevel, startTime,        *)
(* playerName, coins, accuracy, endTime]).  Every commit that changes one  *)
(* of the dependencies schedules the effect; React runs a scheduled effect *)
(* before it handles the next event.                                       *)
(***************************************************************************)
\* JavaScript truthiness of a number | null
Truthy(t) == t # NullTime /\ t # 0

ShouldSubmitIgnoringEndTime(level, start, name, end) ==
    /\ level = "expert"
    /\ Truthy(start)
    /\ Trim(name) # <<>>

\* completedLevel === 'expert' && startTime && playerName.trim() && !endTime
ShouldSubmit(level, start, name, end) ==
    /\ level = "expert"
    /\ Truthy(start)
    /\ Trim(name) # <<>>
    /\ ~Truthy(end)

\* The body of the POST (the optional twitterHandle field is left out).
submissionData(name, c, acc, finalEndTime, start) ==
    [kind |-> "post",
     name |-> Trim(name),
     score |-> c,
     accuracy |-> acc,
     timeTaken |-> (finalEndTime - start) \div 1000,
     level |-> "all"]

AutoSubmitEffect ==
    /\ page = "quiz"
    /\ effectPending
    /\ IF ShouldSubmit(completedLevel, startTime, playerName, endTime)
       THEN LET finalEndTime == now
            IN  /\ endTime' = finalEndTime
                /\ submittingLeaderboard' = TRUE
                /\ request' = submissionData(playerName, coins, accuracy,
                                             finalEndTime, startTime)
                /\ posts' = posts + 1
                /\ effectPending' = (endTime # finalEndTime)
       ELSE /\ effectPending' = FALSE
            /\ UNCHANGED <<endTime, submittingLeaderboard, request, posts>>
    /\ UNCHANGED <<outsideQuiz, selectorVars, page, selectorCalls, sessionQuestions,
                   currentQuestionIndex, selectedAnswer, showExplanation,
                   showLevelCompleteModal, completedLevel, showInstructionModal,
                   showNameInputModal, coins, answeredQuestions, startTime,
                   playerName, shuffledOptions, completionTimer, lastOutcome,
                   notice, now, runs, completedAt, correctBefore, correctHere>>

\* response.ok
ResponseOk(status) == status >= 200 /\ status <= 299

isNetworkError(errorMessage) ==
    \/ Includes(errorMessage, PatFailedToFetch)
    \/ Includes(errorMessage, PatNetworkError)
    \/ Includes(errorMessage, PatNetwork)
    \/ Includes(errorMessage, PatTimeout)
    \/ Includes(errorMessage, PatAborted)

\* the catch block: which alert, if any, is shown for a thrown error
CatchNotice(errorMessage) ==
    IF isNetworkError(errorMessage) THEN "none" ELSE "error"

NoticeForQuiet4xx(o) ==
    IF o.kind = "response"
    THEN IF ResponseOk(o.status)
         THEN IF o.bodyParses THEN "none" ELSE CatchNotice(MsgJsonSyntax)
         ELSE IF o.status >= 500 THEN "server"
         ELSE IF o.status = 400 THEN "failed" ELSE "none"
    ELSE CatchNotice(o.message)

\* The alert submitEntry shows for an outcome: "server", "failed", "error",
\* or "none" when it only logs.
NoticeFor(o) ==
    IF o.kind = "response"
    THEN IF ResponseOk(o.status)
         THEN IF o.bodyParses THEN "none" ELSE CatchNotice(MsgJsonSyntax)
         ELSE IF o.status >= 500 THEN "server" ELSE "failed"
    ELSE CatchNotice(o.message)

SubmittingAfterOnlyOnSuccess(o) == NoticeFor(o) # "none"

\* finally { setSubmittingLeaderboard(false) }
SubmittingAfter(o) == FALSE

\* The rest of submitEntry, from the moment fetch settles.
ReceiveResponse(o) ==
    /\ page = "quiz"
    /\ request # NoRequest
    /\ request' = NoRequest
    /\ lastOutcome' = o
    /\ notice' = NoticeFor(o)
    /\ submittingLeaderboard' = SubmittingAfter(o)
    /\ UNCHANGED <<outsideQuiz, selectorVars, page, selectorCalls, sessionQuestions,
                   currentQuestionIndex, selectedAnswer, showExplanation,
                   showLevelCompleteModal, completedLevel, showInstructionModal,
                   showNameInputModal, coins, answeredQuestions, startTime,
                   endTime, playerName, shuffledOptions, completionTimer,
                   effectPending, now, runs, posts, completedAt, correctBefore,
                   correctHere>>

Settle == \E o \in Outcomes : ReceiveResponse(o)

(***************************************************************************)
(* The whole page                                                          *)
(***************************************************************************)
Next ==
    \/ MountQuiz
    \/ MountCrash
    \/ handleStartTraining
    \/ \E value \in NameInputs : setPlayerName(value)
    \/ handleNameSubmit
    \/ \E side \in {"left", "right"} : handleSelect(side)
    \/ handleNext
    \/ handleProceedToNextLevel
    \/ CompletionTimerFires
    \/ handleStartOver
    \/ AutoSubmitEffect
    \/ Settle

Spec == Init /\ [][Next]_vars

(***************************************************************************)
(* The leaderboard API route, /api/leaderboard.  Two handlers serve it:    *)
(* the file-backed one (data/leaderboard.json) and the database-backed one *)
(* (table leaderboard).  A request body is a JSON object: `present` is the *)
(* set of its keys, the other fields hold the values of the keys present.  *)
(***************************************************************************)
quizPage == <<selectorVars, page, selectorCalls, sessionQuestions, quizVars>>

\* everything a request to the route leaves alone
besidesServer == <<quizPage, homeVars, boardVars, moduleVars>>

Body(present, name, score, acc, time, level, handle) ==
    [present |-> present, name |-> name, score |-> score, accuracy |-> acc,
     timeTaken |-> time, level |-> level, twitterHandle |-> handle]

Required == {"name", "score", "accuracy", "timeTaken", "level"}

\* a complete body without a handle
Summary(score, acc, time, level) ==
    Body(Required, "Al", score, acc, time, level, <<>>)

\* the three entries of the ordering example, in the order they are stored
ExampleBodies ==
    << Summary(100, 90, 30, "expert"), Summary(100, 90, 20, "expert"),
       Summary(100, 95, 50, "expert") >>

\* bodies that differ in rank and in tier
RankingBodies ==
    { Summary(200, 90, 30, "expert"), Summary(100, 95, 50, "beginner"),
      Summary(100, 90, 20, "all") }

\* bodies with a field missing, empty or zero, or with a tier label of their own
ValidationBodies ==
    { Body(Required \ {"name"}, "", 100, 90, 30, "expert", <<>>),
      Body(Required, "", 100, 90, 30, "expert", <<>>),
      Body(Required \ {"score"}, "Al", 0, 90, 30, "expert", <<>>),
      Body(Required \ {"accuracy"}, "Al", 100, 0, 30, "expert", <<>>),
      Body(Required \ {"timeTaken"}, "Al", 100, 90, 0, "expert", <<>>),
      Summary(0, 0, 0, "expert"),
      Summary(100, 90, 0, "mid"),
      Summary(100, 90, 30, "pro"),
      Body(Required \ {"level"}, "Al", 100, 90, 30, "", <<>>) }

HandleInputs == { <<>>, <<"a", "l">>, <<"@", "a", "l">>, <<"@">> }

\* bodies that carry a social handle
HandleBodies ==
    { Body(Required \cup {"twitterHandle"}, "Al", 100, 90, 30, "expert", h) :
        h \in HandleInputs }

Bodies == RankingBodies \cup ValidationBodies \cup HandleBodies

\* req.query of a GET
Query(hasLevel, level, debug) == [hasLevel |-> hasLevel, level |-> level, debug |-> debug]

Queries ==
    { Query(FALSE, "", FALSE), Query(FALSE, "", TRUE) }
      \cup { Query(TRUE, l, FALSE) : l \in {"all", "global", "beginner", "mid", "expert", "pro"} }

\* const { level = 'all' } = req.query
LevelOf(q) == IF q.hasLevel THEN q.level ELSE "all"

Response(method, status, kind, rows) ==
    [method |-> method, status |-> status, kind |-> kind, rows |-> rows]

(***************************************************************************)
(* The file-backed handler                                                 *)
(***************************************************************************)
compareEntriesSlowerFirst(a, b) ==
    IF b.score # a.score THEN b.score - a.score
    ELSE IF b.accuracy # a.accuracy THEN b.accuracy - a.accuracy
    ELSE b.timeTaken - a.timeTaken

\* the comparator handed to Array.prototype.sort
compareEntries(a, b) ==
    IF b.score # a.score THEN b.score - a.score
    ELSE IF b.accuracy # a.accuracy THEN b.accuracy - a.accuracy
    ELSE a.timeTaken - b.timeTaken

\* Array.prototype.sort is stable: an element goes before the first one it
\* is strictly ahead of, after everything it ties with.
RECURSIVE InsertEntry(_, _)
InsertEntry(sorted, x) ==
    IF sorted = <<>> THEN <<x>>
    ELSE IF compareEntries(x, Head(sorted)) < 0 THEN <<x>> \o sorted
    ELSE <<Head(sorted)>> \o InsertEntry(Tail(sorted), x)

RECURSIVE SortLoop(_, _, _)
SortLoop(list, k, sorted) ==
    IF k > Len(list) THEN sorted
    ELSE SortLoop(list, k + 1, InsertEntry(sorted, list[k]))

sortEntries(list) == SortLoop(list, 1, <<>>)

filterByLevelKeepsAll(list, level) == list

filterByLevel(list, level) ==
    IF level = "all" \/ level = "global" THEN list
    ELSE SelectSeq(list, LAMBDA entry : "level" \in entry.present /\ entry.level = level)

\* !entry.name || entry.score === undefined || entry.accuracy === undefined
\*   || !entry.timeTaken
FileRejects(entry) ==
    \/ "name" \notin entry.present \/ entry.name = ""
    \/ "score" \notin entry.present
    \/ "accuracy" \notin entry.present
    \/ "timeTaken" \notin entry.present \/ entry.timeTaken = 0

\* entry.id = ...; entry.timestamp = Date.now(): the body itself is stored
FileEntry(entry, id, timestamp) ==
    [present |-> entry.present \cup {"id", "timestamp"}, id |-> id, name |-> entry.name,
     score |-> entry.score, accuracy |-> entry.accuracy, timeTaken |-> entry.timeTaken,
     level |-> entry.level, timestamp |-> timestamp, twitterHandle |-> entry.twitterHandle]

\* The file is written only by writeLeaderboard, whole and synchronously, so
\* readLeaderboard finds no file or the JSON array written last: `store`.
FileGet(q) ==
    /\ response' = Response("GET", 200, "list",
                            sortEntries(filterByLevel(store, LevelOf(q))))
    /\ UNCHANGED <<store, serverClock>>

\* writeLeaderboard([entry]) instead of the list read
FilePostForgetsOthers(entry) ==
    IF FileRejects(entry)
    THEN /\ response' = Response("POST", 400, "error", <<>>)
         /\ UNCHANGED <<store, serverClock>>
    ELSE LET stored == FileEntry(entry, serverClock, serverClock)
         IN  /\ store' = <<stored>>
             /\ serverClock' = serverClock + 1
             /\ response' = Response("POST", 201, "entry", <<stored>>)

FilePost(entry) ==
    IF FileRejects(entry)
    THEN /\ response' = Response("POST", 400, "error", <<>>)
         /\ UNCHANGED <<store, serverClock>>
    ELSE LET stored == FileEntry(entry, serverClock, serverClock)
         IN  /\ store' = Append(store, stored)
             /\ serverClock' = serverClock + 1
             /\ response' = Response("POST", 201, "entry", <<stored>>)

FileOther(method) ==
    /\ response' = Response(method, 405, "error", <<>>)
    /\ UNCHANGED <<store, serverClock>>

(***************************************************************************)
(* The database-backed handler                                             *)
(***************************************************************************)
\* !entry.name || entry.score === undefined || entry.accuracy === undefined
\*   || entry.timeTaken === undefined
DbRejectsFields(entry) ==
    \/ "name" \notin entry.present \/ entry.name = ""
    \/ "score" \notin entry.present
    \/ "accuracy" \notin entry.present
    \/ "timeTaken" \notin entry.present

AcceptedLevels == {"beginner", "mid", "expert", "all"}

DbAcceptsAnyLevel(entry) == FALSE

\* !['beginner', 'mid', 'expert', 'all'].includes(entry.level)
DbRejectsLevel(entry) ==
    ~("level" \in entry.present /\ entry.level \in AcceptedLevels)

\* the value bound to twitter_handle: null, or the characters of the handle
NullHandle == [null |-> TRUE, chars |-> <<>>]
Handle(chars) == [null |-> FALSE, chars |-> chars]

normalizeNeverPrefixes(entry) ==
    IF "twitterHandle" \in entry.present /\ entry.twitterHandle # <<>>
    THEN Handle(entry.twitterHandle)
    ELSE NullHandle

normalizeTwitterHandle(entry) ==
    IF "twitterHandle" \in entry.present /\ entry.twitterHandle # <<>>
    THEN IF Head(entry.twitterHandle) = "@"
         THEN Handle(entry.twitterHandle)
         ELSE Handle(<<"@">> \o entry.twitterHandle)
    ELSE NullHandle

\* the row INSERT ... RETURNING writes: a null column is a key not present
DbRow(entry, id, timestamp) ==
    LET twitterHandle == normalizeTwitterHandle(entry)
    IN  [present |-> (Required \cup {"id", "timestamp"})
                        \cup (IF twitterHandle.null THEN {} ELSE {"twitterHandle"}),
         id |-> id, name |-> entry.name, score |-> entry.score,
         accuracy |-> entry.accuracy, timeTaken |-> entry.timeTaken,
         level |-> entry.level, timestamp |-> timestamp,
         twitterHandle |-> twitterHandle.chars]

\* ORDER BY score DESC, accuracy DESC, time_taken ASC: a row goes before b
orderBy(a, b) ==
    \/ a.score > b.score
    \/ a.score = b.score /\ a.accuracy > b.accuracy
    \/ a.score = b.score /\ a.accuracy = b.accuracy /\ a.timeTaken < b.timeTaken

RECURSIVE OrderInsert(_, _)
OrderInsert(sorted, x) ==
    IF sorted = <<>> THEN <<x>>
    ELSE IF orderBy(x, Head(sorted)) THEN <<x>> \o sorted
    ELSE <<Head(sorted)>> \o OrderInsert(Tail(sorted), x)

RECURSIVE OrderLoop(_, _, _)
OrderLoop(rows, k, sorted) ==
    IF k > Len(rows) THEN sorted
    ELSE OrderLoop(rows, k + 1, OrderInsert(sorted, rows[k]))

Reverse(rows) == [k \in 1..Len(rows) |-> rows[Len(rows) + 1 - k]]

\* SELECT ... FROM leaderboard [WHERE level = $1] ORDER BY ...: the rows that
\* tie on the three keys come in an order the database chooses.
SelectRows(level) ==
    LET matching == IF level = "all" \/ level = "global" THEN store
                    ELSE SelectSeq(store, LAMBDA row : row.level = level)
    IN  { OrderLoop(matching, 1, <<>>), OrderLoop(Reverse(matching), 1, <<>>) }

\* what a query() call does: it returns, or it throws
DbStates == {"up", "down"}

DbGet(q, db) ==
    /\ UNCHANGED <<store, serverClock>>
    /\ IF backend = "db-unconfigured"
       THEN response' = Response("GET", 503, "error", <<>>)
       ELSE IF q.debug
       THEN response' = Response("GET", 200, "diagnostic", <<>>)
       ELSE IF db = "down"
       THEN response' = Response("GET", 500, "error", <<>>)
       ELSE \E rows \in SelectRows(LevelOf(q)) :
               response' = Response("GET", 200, "list", rows)

DbPost(entry, db) ==
    IF backend = "db-unconfigured"
    THEN /\ response' = Response("POST", 503, "error", <<>>)
         /\ UNCHANGED <<store, serverClock>>
    ELSE IF DbRejectsFields(entry) \/ DbRejectsLevel(entry)
    THEN /\ response' = Response("POST", 400, "error", <<>>)
         /\ UNCHANGED <<store, serverClock>>
    ELSE IF db = "down"
    THEN /\ response' = Response("POST", 500, "error", <<>>)
         /\ UNCHANGED <<store, serverClock>>
    ELSE LET row == DbRow(entry, serverClock, serverClock)
         IN  /\ store' = Append(store, row)
             /\ serverClock' = serverClock + 1
             /\ response' = Response("POST", 201, "entry", <<row>>)

DbOther(method) ==
    /\ UNCHANGED <<store, serverClock>>
    /\ IF method = "OPTIONS"
       THEN response' = Response(method, 200, "empty", <<>>)
       ELSE IF backend = "db-unconfigured"
       THEN response' = Response(method, 503, "error", <<>>)
       ELSE response' = Response(method, 405, "error", <<>>)

(***************************************************************************)
(* Requests to the route                                                   *)
(***************************************************************************)
Backends == {"file", "db", "db-unconfigured"}

OtherMethods == {"OPTIONS", "DELETE"}

\* the entries a handler stores for the bodies of the ordering example
RECURSIVE Stored(_, _, _)
Stored(b, bodies, k) ==
    IF k > Len(bodies) THEN <<>>
    ELSE <<IF b = "file" THEN FileEntry(bodies[k], k, k) ELSE DbRow(bodies[k], k, k)>>
            \o Stored(b, bodies, k + 1)

ExampleStore(b) == Stored(b, ExampleBodies, 1)

\* the server clock when the model starts
ServerEpoch == Len(ExampleBodies) + 1

ApiInit ==
    /\ catalog = ValidCatalog
    /\ seed = 3
    /\ stride = 2
    /\ InitQuiz
    /\ backend \in Backends
    /\ store \in {<<>>, ExampleStore(backend)}
    /\ response = NoResponse
    /\ serverClock = ServerEpoch
    /\ HomeUnmounted
    /\ BoardUnmounted
    /\ ModulesIdle

HandleGet(q) ==
    /\ \/ backend = "file" /\ FileGet(q)
       \/ backend # "file" /\ \E db \in DbStates : DbGet(q, db)
    /\ UNCHANGED <<backend, besidesServer>>

HandlePost(entry) ==
    /\ serverClock - ServerEpoch < MaxPosts
    /\ \/ backend = "file" /\ FilePost(entry)
       \/ backend # "file" /\ \E db \in DbStates : DbPost(entry, db)
    /\ UNCHANGED <<backend, besidesServer>>

HandleOther(method) ==
    /\ \/ backend = "file" /\ FileOther(method)
       \/ backend # "file" /\ DbOther(method)
    /\ UNCHANGED <<backend, besidesServer>>

ApiNext ==
    \/ \E q \in Queries : HandleGet(q)
    \/ \E entry \in Bodies : HandlePost(entry)
    \/ \E method \in OtherMethods : HandleOther(method)

ApiSpec == ApiInit /\ [][ApiNext]_vars

(***************************************************************************)
(* The handle endpoint, /api/twitter-handles, and the landing page (Home)  *)
(***************************************************************************)
\* GROUP BY twitter_handle ORDER BY latest_created DESC: the distinct handles
\* of the rows that have one, the most recently stored first
RECURSIVE RecentHandles(_, _, _)
RecentHandles(rows, k, found) ==
    IF k = 0 THEN found
    ELSE LET row == rows[k]
             listed == \E j \in 1..Len(found) : found[j] = row.twitterHandle
         IN  IF "twitterHandle" \in row.present /\ row.twitterHandle # <<>> /\ ~listed
             THEN RecentHandles(rows, k - 1, Append(found, row.twitterHandle))
             ELSE RecentHandles(rows, k - 1, found)

HandlesLimit == 20

Limit(list, n) == SubSeq(list, 1, IF Len(list) < n THEN Len(list) ELSE n)

\* .filter(handle => handle && handle.trim() !== '')
NonBlank(list) == SelectSeq(list, LAMBDA handle : handle # <<>> /\ Trim(handle) # <<>>)

\* the body of the endpoint's 200 response
twitterHandles == NonBlank(Limit(RecentHandles(store, Len(store), <<>>), HandlesLimit))

\* how the fetch of Home can end: a 200 with the handles, a 500, a rejection
HandleOutcomes == {"ok", "error", "throw"}

\* the first render of Home and its mount effect: fetchHandles() is called
HomeMount ==
    /\ homePage = "unmounted"
    /\ homePage' = "mounted"
    /\ handlesFetch' = "inflight"
    /\ UNCHANGED <<playerHandles, loadingHandles, handleIndex>>
    /\ UNCHANGED <<serverVars, quizPage, boardVars, moduleVars>>

\* setPlayerHandles(handles) on response.ok, setPlayerHandles([]) otherwise
HandlesAfter(o, handles) == IF o = "ok" THEN handles ELSE <<>>

\* fetchHandles resumes after `await fetch(...)`
HomeSettle(o) ==
    /\ homePage = "mounted"
    /\ handlesFetch = "inflight"
    /\ o = "ok" => backend = "db"
    /\ playerHandles' = HandlesAfter(o, twitterHandles)
    /\ loadingHandles' = FALSE
    /\ handlesFetch' = "settled"
    /\ UNCHANGED <<homePage, handleIndex>>
    /\ UNCHANGED <<serverVars, quizPage, boardVars, moduleVars>>

\* the 2 s interval, set while there are handles
HomeTick ==
    /\ homePage = "mounted"
    /\ playerHandles # <<>>
    /\ handleIndex' = (handleIndex + 1) % Len(playerHandles)
    /\ UNCHANGED <<homePage, playerHandles, loadingHandles, handlesFetch>>
    /\ UNCHANGED <<serverVars, quizPage, boardVars, moduleVars>>

\* what the strip shows
DisplayedHandles == IF loadingHandles THEN <<>> ELSE playerHandles

HomeInit ==
    /\ catalog = ValidCatalog
    /\ seed = 3
    /\ stride = 2
    /\ InitQuiz
    /\ backend \in {"db", "db-unconfigured"}
    /\ store \in {<<>>, ExampleStore(backend)}
    /\ response = NoResponse
    /\ serverClock = ServerEpoch
    /\ HomeUnmounted
    /\ BoardUnmounted
    /\ ModulesIdle

\* players finishing sessions while the landing page is open
HomePost == \E entry \in HandleBodies : HandlePost(entry)

HomeNext ==
    \/ HomeMount
    \/ \E o \in HandleOutcomes : HomeSettle(o)
    \/ HomeTick
    \/ HomePost

HomeSpec == HomeInit /\ [][HomeNext]_vars

(***************************************************************************)
(* The leaderboard page (Leaderboard)                                      *)
(***************************************************************************)
FilterLevels == {"all", "beginner", "mid", "expert"}

\* const levelParam = filter === 'all' ? 'global' : filter
LevelParam(f) == IF f = "all" THEN "global" ELSE f

\* how a fetch of the page can end: a 200 with the list, another status, a rejection
FetchOutcomes == {"ok", "status", "throw"}

\* entries of three tiers, for a store whose lists differ by filter
TierBodies ==
    << Summary(100, 95, 50, "beginner"), Summary(200, 90, 30, "expert"),
       Summary(100, 90, 20, "all"), Summary(100, 90, 30, "mid") >>

\* the lists GET /api/leaderboard?level=<level> can answer with
ListsFor(level) ==
    IF backend = "file" THEN {sortEntries(filterByLevel(store, level))}
    ELSE SelectRows(level)

\* the first render of Leaderboard; its effect is due
BoardMount ==
    /\ boardPage = "unmounted"
    /\ boardPage' = "mounted"
    /\ boardEffect' = TRUE
    /\ UNCHANGED <<entries, filter, loading, boardError, fetches, entriesFor>>
    /\ UNCHANGED <<serverVars, quizPage, homeVars, moduleVars>>

\* fetchLeaderboard up to its `await fetch(...)`, with the filter of the render
\* it was created in
StartFetch(f) ==
    /\ loading' = TRUE
    /\ boardError' = Null
    /\ fetches' = Append(fetches, LevelParam(f))

\* useEffect(() => { ...; fetchLeaderboard() }, [filter])
BoardEffect ==
    /\ boardPage = "mounted"
    /\ boardEffect
    /\ boardEffect' = FALSE
    /\ StartFetch(filter)
    /\ UNCHANGED <<boardPage, entries, filter, entriesFor>>
    /\ UNCHANGED <<serverVars, quizPage, homeVars, moduleVars>>

\* onClick={() => setFilter(level)}; the buttons are always enabled
setFilter(level) ==
    /\ boardPage = "mounted"
    /\ ~boardEffect
    /\ Len(fetches) < MaxFetches
    /\ filter' = level
    /\ boardEffect' = (level # filter)
    /\ UNCHANGED <<boardPage, entries, loading, boardError, fetches, entriesFor>>
    /\ UNCHANGED <<serverVars, quizPage, homeVars, moduleVars>>

\* the Retry button, rendered when not loading and error is set
Retry ==
    /\ boardPage = "mounted"
    /\ ~boardEffect
    /\ ~loading
    /\ boardError # Null
    /\ Len(fetches) < MaxFetches
    /\ StartFetch(filter)
    /\ UNCHANGED <<boardPage, entries, filter, boardEffect, entriesFor>>
    /\ UNCHANGED <<serverVars, quizPage, homeVars, moduleVars>>

Without(list, k) == SubSeq(list, 1, k - 1) \o SubSeq(list, k + 1, Len(list))

\* fetchLeaderboard resumes for the k-th fetch in flight: setEntries(data), or
\* setError(...) and setEntries([]); finally setLoading(false)
FetchSettles(k, o) ==
    /\ boardPage = "mounted"
    /\ ~boardEffect
    /\ k \in 1..Len(fetches)
    /\ o = "ok" => backend \in {"file", "db"}
    /\ IF o = "ok"
       THEN /\ entries' \in ListsFor(fetches[k])
            /\ UNCHANGED boardError
       ELSE /\ entries' = <<>>
            /\ boardError' = (IF o = "status" THEN "Failed to fetch leaderboard: status"
                                              ELSE "Failed to fetch")
    /\ entriesFor' = fetches[k]
    /\ loading' = FALSE
    /\ fetches' = Without(fetches, k)
    /\ UNCHANGED <<boardPage, filter, boardEffect>>
    /\ UNCHANGED <<serverVars, quizPage, homeVars, moduleVars>>

BoardInit ==
    /\ catalog = ValidCatalog
    /\ seed = 3
    /\ stride = 2
    /\ InitQuiz
    /\ backend \in Backends
    /\ store \in {<<>>, ExampleStore(backend), Stored(backend, TierBodies, 1)}
    /\ response = NoResponse
    /\ serverClock = ServerEpoch
    /\ HomeUnmounted
    /\ BoardUnmounted
    /\ ModulesIdle

BoardNext ==
    \/ BoardMount
    \/ BoardEffect
    \/ \E level \in FilterLevels : setFilter(level)
    \/ Retry
    \/ \E k \in 1..MaxFetches, o \in FetchOutcomes : FetchSettles(k, o)

BoardSpec == BoardInit /\ [][BoardNext]_vars

(***************************************************************************)
(* One call of shuffleArray, statement by statement, on every small array  *)
(* and under every outcome of its draws; and one call of shuffleOptions,   *)
(* which passes its two option objects to shuffleArray.                    *)
(***************************************************************************)
MaxLen == 3

Elements == 1..MaxLen

\* the arrays a caller can pass: up to MaxLen elements, repetitions allowed
Arrays == UNION {[1..n -> Elements] : n \in 0..MaxLen}

\* const options = [{value: optionA, isCorrect: true}, {value: optionB, isCorrect: false}]
OptionArray(a, b) == <<[value |-> a, isCorrect |-> TRUE], [value |-> b, isCorrect |-> FALSE]>>

DrawRangeWholeArray(i, n) == 0..(n - 1)

\* the values of Math.floor(Math.random() * (i + 1))
DrawRange(i, n) == 0..i

ShuffleInit ==
    /\ catalog = ValidCatalog
    /\ seed = 3
    /\ stride = 2
    /\ InitQuiz
    /\ backend = "file"
    /\ store = <<>>
    /\ response = NoResponse
    /\ serverClock = 1
    /\ HomeUnmounted
    /\ BoardUnmounted
    /\ RequestsIdle
    /\ PoolIdle
    /\ \/ /\ shCaller = "array"
          /\ shArray \in Arrays
       \/ /\ shCaller = "options"
          /\ shArray \in {OptionArray(optionA(q), optionB(q)) : q \in Elements}
    /\ shShuffled = <<>>
    /\ shI = 0
    /\ shPc = "idle"
    /\ shDraws = <<>>
    /\ shResult = Null

\* const shuffled = [...array]; let i = shuffled.length - 1
ShuffleCall ==
    /\ shPc = "idle"
    /\ shCaller # "none"
    /\ shShuffled' = shArray
    /\ shI' = Len(shArray) - 1
    /\ shPc' = "loop"
    /\ UNCHANGED <<shCaller, shArray, shDraws, shResult>>
    /\ UNCHANGED <<serverVars, homeVars, boardVars, quizPage, requestVars, poolVars>>

\* one pass of the loop body, and i--
ShuffleStep ==
    /\ shPc = "loop"
    /\ shI > 0
    /\ \E j \in DrawRange(shI, Len(shShuffled)) :
          /\ shShuffled' = Swap(shShuffled, shI, j)
          /\ shDraws' = [k \in (DOMAIN shDraws) \cup {shI} |->
                            IF k = shI THEN j ELSE shDraws[k]]
    /\ shI' = shI - 1
    /\ UNCHANGED <<shCaller, shArray, shPc, shResult>>
    /\ UNCHANGED <<serverVars, homeVars, boardVars, quizPage, requestVars, poolVars>>

\* return shuffled; in shuffleOptions, the object built from it
ShuffleReturn ==
    /\ shPc = "loop"
    /\ ~(shI > 0)
    /\ shPc' = "returned"
    /\ shResult' =
          IF shCaller = "options"
          THEN [leftOption |-> shShuffled[1].value,
                rightOption |-> shShuffled[2].value,
                correctAnswer |-> IF shShuffled[1].isCorrect THEN "left" ELSE "right"]
          ELSE Null
    /\ UNCHANGED <<shCaller, shArray, shShuffled, shI, shDraws>>
    /\ UNCHANGED <<serverVars, homeVars, boardVars, quizPage, requestVars, poolVars>>

ShuffleNext == ShuffleCall \/ ShuffleStep \/ ShuffleReturn

ShuffleSpec == ShuffleInit /\ [][ShuffleNext]_vars


(***************************************************************************)
(* Concurrent POST requests to the file-backed handler, statement by       *)
(* statement.  The handler is an ordinary (not async) function and reads   *)
(* and writes the file with readFileSync / writeFileSync, so the event     *)
(* loop of the server process starts the handler of a request only when no *)
(* other handler is on the stack; requests wait in arrival queues in any   *)
(* order.  One server process owns the file; file I/O does not fail.       *)
(***************************************************************************)
MaxHandlers == 2

Requests == 1..MaxHandlers

\* two bodies the handler accepts and one it rejects (timeTaken = 0)
RequestBodies ==
    { Summary(200, 90, 30, "expert"), Summary(100, 95, 50, "beginner"),
      Summary(100, 90, 0, "mid") }

\* the handlers that have started and not yet answered
OnStack == {r \in Requests : reqPc[r] \notin {"queued", "done"}}

DispatchableAnytime(running) == TRUE

\* export default function handler(...): runs to completion, no await in it
Dispatchable(running) == running = {}

RequestsInit ==
    /\ catalog = ValidCatalog
    /\ seed = 3
    /\ stride = 2
    /\ InitQuiz
    /\ backend = "file"
    /\ store \in {<<>>, ExampleStore("file")}
    /\ response = NoResponse
    /\ serverClock = ServerEpoch
    /\ HomeUnmounted
    /\ BoardUnmounted
    /\ ShuffleIdle
    /\ PoolIdle
    /\ reqPc = [r \in Requests |-> "queued"]
    /\ reqBody \in [Requests -> RequestBodies]
    /\ reqEntries = [r \in Requests |-> <<>>]
    /\ reqStatus = [r \in Requests |-> 0]

\* the handler starts: validation, then entry.id and entry.timestamp
PostBegin(r) ==
    /\ reqPc[r] = "queued"
    /\ Dispatchable(OnStack)
    /\ IF FileRejects(reqBody[r])
       THEN /\ reqPc' = [reqPc EXCEPT ![r] = "done"]
            /\ reqStatus' = [reqStatus EXCEPT ![r] = 400]
            /\ UNCHANGED <<reqBody, serverClock>>
       ELSE /\ reqPc' = [reqPc EXCEPT ![r] = "read"]
            /\ reqBody' = [reqBody EXCEPT ![r] = FileEntry(reqBody[r], serverClock, serverClock)]
            /\ serverClock' = serverClock + 1
            /\ UNCHANGED reqStatus
    /\ UNCHANGED <<store, reqEntries>>
    /\ UNCHANGED <<backend, response, homeVars, boardVars, quizPage, shuffleVars, poolVars>>

\* const entries = readLeaderboard()
PostRead(r) ==
    /\ reqPc[r] = "read"
    /\ reqEntries' = [reqEntries EXCEPT ![r] = store]
    /\ reqPc' = [reqPc EXCEPT ![r] = "push"]
    /\ UNCHANGED <<store, serverClock, reqBody, reqStatus>>
    /\ UNCHANGED <<backend, response, homeVars, boardVars, quizPage, shuffleVars, poolVars>>

\* entries.push(entry)
PostPush(r) ==
    /\ reqPc[r] = "push"
    /\ reqEntries' = [reqEntries EXCEPT ![r] = Append(reqEntries[r], reqBody[r])]
    /\ reqPc' = [reqPc EXCEPT ![r] = "write"]
    /\ UNCHANGED <<store, serverClock, reqBody, reqStatus>>
    /\ UNCHANGED <<backend, response, homeVars, boardVars, quizPage, shuffleVars, poolVars>>

\* writeLeaderboard(entries)
PostWrite(r) ==
    /\ reqPc[r] = "write"
    /\ store' = reqEntries[r]
    /\ reqPc' = [reqPc EXCEPT ![r] = "respond"]
    /\ UNCHANGED <<serverClock, reqBody, reqEntries, reqStatus>>
    /\ UNCHANGED <<backend, response, homeVars, boardVars, quizPage, shuffleVars, poolVars>>

\* res.status(201).json(entry)
PostRespond(r) ==
    /\ reqPc[r] = "respond"
    /\ reqStatus' = [reqStatus EXCEPT ![r] = 201]
    /\ reqPc' = [reqPc EXCEPT ![r] = "done"]
    /\ response' = Response("POST", 201, "entry", <<reqBody[r]>>)
    /\ UNCHANGED <<store, serverClock, reqBody, reqEntries>>
    /\ UNCHANGED <<backend, homeVars, boardVars, quizPage, shuffleVars, poolVars>>

RequestsNext ==
    \E r \in Requests :
        PostBegin(r) \/ PostRead(r) \/ PostPush(r) \/ PostWrite(r) \/ PostRespond(r)

RequestsSpec == RequestsInit /\ [][RequestsNext]_vars


(***************************************************************************)
(* The first run of a session on its own, from mounting to the completion  *)
(* modal (what follows completion - submission, Start Over - is in Spec),  *)
(* with the scheduling it relies on: React runs a scheduled effect, a      *)
(* pending setTimeout fires, and the user keeps acting, which is to say    *)
(* that a control offered again and again is eventually used.              *)
(***************************************************************************)
ProgressInit ==
    /\ catalog = ValidCatalog
    /\ seed = 3
    /\ stride = 2
    /\ InitQuiz
    /\ OutsideQuizIdle

ProgressNext ==
    \/ MountQuiz
    \/ handleStartTraining
    \/ \E value \in NameInputs : setPlayerName(value)
    \/ handleNameSubmit
    \/ \E side \in {"left", "right"} : handleSelect(side)
    \/ handleNext
    \/ handleProceedToNextLevel
    \/ CompletionTimerFires
    \/ AutoSubmitEffect

ProgressFairness ==
    /\ WF_vars(AutoSubmitEffect)
    /\ WF_vars(CompletionTimerFires)
    /\ SF_vars(handleStartTraining)
    /\ SF_vars(\E value \in NameInputs : NameAccepted(value) /\ setPlayerName(value))
    /\ SF_vars(handleNameSubmit)
    /\ SF_vars(\E side \in {"left", "right"} : handleSelect(side))
    /\ SF_vars(handleNext)
    /\ SF_vars(handleProceedToNextLevel)

ProgressSpec == ProgressInit /\ [][ProgressNext]_vars /\ ProgressFairness


(***************************************************************************)
(* lib/db: the module-level handle `pool` and getDbPool.  Pool objects are *)
(* numbered in the order of their construction; none of them is ever       *)
(* ended, so each can emit 'error' events (one per idle client that fails) *)
(* for as long as the process lives, whether or not the handle still       *)
(* refers to it.                                                           *)
(***************************************************************************)
MaxPools == 3

MaxErrors == 2

MaxQueries == 2

\* what a call that threw is recorded as in poolCalls
Threw == -1

\* the Pool objects constructed so far
Pools == 1..Len(poolEvents)

PoolInit ==
    /\ catalog = ValidCatalog
    /\ seed = 3
    /\ stride = 2
    /\ InitQuiz
    /\ backend = "db"
    /\ store = <<>>
    /\ response = NoResponse
    /\ serverClock = 1
    /\ HomeUnmounted
    /\ BoardUnmounted
    /\ ShuffleIdle
    /\ RequestsIdle
    /\ pool = NoPool
    /\ poolEvents = <<>>
    /\ databaseUrl \in BOOLEAN
    /\ poolCalls = {}
    /\ poolQueries = <<>>

\* the number of queries awaiting their result
RECURSIVE InFlight(_)
InFlight(queries) == IF queries = <<>> THEN 0 ELSE Head(queries) + InFlight(Tail(queries))

\* const result = await db.query(text, params), begun on the pool db
StartQuery(queries, db) == [queries EXCEPT ![db] = queries[db] + 1]

\* getDbPool is called by query only; each of its three ways out is followed
\* up to the await of query.
\* if (pool) return pool
GetExistingPool ==
    /\ pool # NoPool
    /\ poolCalls' = poolCalls \cup {pool}
    /\ poolQueries' = StartQuery(poolQueries, pool)
    /\ UNCHANGED <<pool, poolEvents, databaseUrl>>
    /\ UNCHANGED <<serverVars, homeVars, boardVars, quizPage, shuffleVars, requestVars>>

\* if (!connectionString) throw error; query rethrows
GetPoolUnconfigured ==
    /\ pool = NoPool
    /\ ~databaseUrl
    /\ poolCalls' = poolCalls \cup {Threw}
    /\ UNCHANGED <<pool, poolEvents, databaseUrl, poolQueries>>
    /\ UNCHANGED <<serverVars, homeVars, boardVars, quizPage, shuffleVars, requestVars>>

\* pool = new Pool(...); pool.on('error', ...); return pool - or the
\* constructor throws and the catch block leaves the handle null
CreatePool(constructed) ==
    /\ pool = NoPool
    /\ databaseUrl
    /\ Len(poolEvents) < MaxPools
    /\ IF constructed
       THEN /\ poolEvents' = Append(poolEvents, 0)
            /\ pool' = Len(poolEvents) + 1
            /\ poolCalls' = poolCalls \cup {Len(poolEvents) + 1}
            /\ poolQueries' = StartQuery(Append(poolQueries, 0), Len(poolEvents) + 1)
       ELSE /\ pool' = NoPool
            /\ poolCalls' = poolCalls \cup {Threw}
            /\ UNCHANGED <<poolEvents, poolQueries>>
    /\ UNCHANGED databaseUrl
    /\ UNCHANGED <<serverVars, homeVars, boardVars, quizPage, shuffleVars, requestVars>>

getDbPool ==
    GetExistingPool \/ GetPoolUnconfigured \/ \E constructed \in BOOLEAN : CreatePool(constructed)

query == InFlight(poolQueries) < MaxQueries /\ getDbPool

\* db.query(...) of a query begun on Pool object p resolves or rejects
QuerySettles(p) ==
    /\ p \in Pools
    /\ poolQueries[p] > 0
    /\ poolQueries' = [poolQueries EXCEPT ![p] = poolQueries[p] - 1]
    /\ UNCHANGED <<pool, poolEvents, databaseUrl, poolCalls>>
    /\ UNCHANGED <<serverVars, homeVars, boardVars, quizPage, shuffleVars, requestVars>>

\* the listener registered on Pool object p: (err) => { ...; pool = null }
PoolError(p) ==
    /\ p \in Pools
    /\ poolEvents[p] < MaxErrors
    /\ poolEvents' = [poolEvents EXCEPT ![p] = poolEvents[p] + 1]
    /\ pool' = NoPool
    /\ poolCalls' = {}
    /\ UNCHANGED <<databaseUrl, poolQueries>>
    /\ UNCHANGED <<serverVars, homeVars, boardVars, quizPage, shuffleVars, requestVars>>

PoolNext ==
    \/ query
    \/ \E p \in 1..MaxPools : QuerySettles(p)
    \/ \E p \in 1..MaxPools : PoolError(p)

PoolSpec == PoolInit /\ [][PoolNext]_vars


(***************************************************************************)
(* Properties of the quiz session                                          *)
(***************************************************************************)
\* C1: in every reachable state coins = 100 x the number of distinct question
\* indices answered correctly since the last reset; no index is credited twice.
C1_CoinLedger ==
    /\ coins = 100 * CorrectCount(correctBefore, correctHere)
    /\ correctBefore <= currentQuestionIndex
    /\ coins <= 100 * Cardinality(answeredQuestions)

C1_Witness ==
    /\ runs = 2
    /\ currentQuestionIndex = 6
    /\ coins = 400
    /\ correctHere
    /\ Cardinality(answeredQuestions) = 7

SessionComplete ==
    /\ completedLevel = "expert"
    /\ Truthy(startTime)
    /\ Trim(playerName) # <<>>

\* C2 (as claimed): every entry into SessionComplete, on the first run and on
\* every run after Start Over, has recorded an end timestamp for that run and
\* issued one POST for it once the submission effect has run.
C2_EveryCompletionSubmits ==
    (SessionComplete /\ ~effectPending) => (posts = 1 /\ endTime = completedAt)

\* C3 (as claimed): Start Over shows the instructions again and invokes the
\* session selector again, so that the next run has a freshly sampled list.
C3_StartOverResamples ==
    [][handleStartOver => (showInstructionModal' /\ selectorCalls' = selectorCalls + 1)]_vars

\* C4: for one completed session at most one POST is issued, whatever state
\* changes follow and however the request ends.
C4_AtMostOnePost == posts <= 1

C4_Witness ==
    /\ posts = 1
    /\ lastOutcome.kind = "throw"
    /\ request = NoRequest
    /\ ~effectPending
    /\ SessionComplete

\* C5: the POST issued at completion carries score = 100 x the number of
\* correctly answered questions of all 20 and the accuracy of that score;
\* 20 correct answers give score 2000 and accuracy 100.
C5_PayloadIsFinalScore ==
    (request # NoRequest /\ posts = 1) =>
        /\ answeredQuestions = 0..19
        /\ request.score = 100 * CorrectCount(correctBefore, correctHere)
        /\ request.accuracy = 5 * CorrectCount(correctBefore, correctHere)
        /\ (CorrectCount(correctBefore, correctHere) = 20
               => request.score = 2000 /\ request.accuracy = 100)

C5_Witness ==
    /\ request # NoRequest
    /\ posts = 1
    /\ correctHere
    /\ request.score = 2000
    /\ request.accuracy = 100

IsHttpFailure(o) == o.kind = "response" /\ ~(o.status >= 200 /\ o.status <= 299)

C7_SubmissionSettles ==
    /\ [](request = NoRequest => ~submittingLeaderboard)
    /\ [][Settle => /\ UNCHANGED <<currentQuestionIndex, coins, completedLevel>>
                    /\ ~submittingLeaderboard'
                    /\ StartOverOffered => StartOverOffered']_vars

C7_Witness ==
    /\ lastOutcome.kind = "throw"
    /\ lastOutcome.message = MsgLoadFailed
    /\ ~submittingLeaderboard
    /\ StartOverOffered

\* C10: apart from the Start Over reset every transition leaves coins
\* unchanged or adds exactly 100.
C10_CoinsMonotone ==
    [][handleStartOver \/ coins' = coins \/ coins' = coins + 100]_vars

C10_Witness ==
    /\ runs = 1
    /\ coins = 1900
    /\ Cardinality(answeredQuestions) = 20
    /\ lastOutcome # NoOutcome
    /\ showLevelCompleteModal

\* C11: handleSelect on a question that is already answered (showExplanation
\* true) changes nothing, whichever side is clicked: selectedAnswer, coins,
\* the answered set, the index and the modals stay as they are; and as long
\* as the same question stays answered no step changes the recorded answer,
\* the coins or the answered set.
C11_AnsweredSelectIsNoOp ==
    [][ /\ \A side \in {"left", "right"} :
              (showExplanation /\ handleSelect(side)) =>
                  UNCHANGED <<selectedAnswer, coins, answeredQuestions,
                              currentQuestionIndex, showLevelCompleteModal,
                              completedLevel, showInstructionModal,
                              showNameInputModal, completionTimer>>
        /\ (showExplanation /\ showExplanation'
                /\ UNCHANGED <<currentQuestionIndex, runs>>) =>
                  UNCHANGED <<selectedAnswer, coins, answeredQuestions>>
      ]_vars

\* an answered question on display, answered wrongly, the other side clickable
C11_Witness ==
    /\ page = "quiz"
    /\ NoModal
    /\ ~effectPending
    /\ showExplanation
    /\ selectedAnswer = "left"
    /\ shuffledOptions.correctAnswer = "right"
    /\ currentQuestionIndex = 3
    /\ coins = 300
    /\ currentQuestionIndex \in answeredQuestions

\* C17: in every state accuracy is coins / (20 x 100) x 100 rounded to the
\* nearest integer; it is an integer in 0..100, five points per question
\* answered correctly, and it is 100 exactly when all 20 questions of the
\* session were answered correctly.
C17_AccuracyIsPercentage ==
    /\ accuracy \in 0..100
    /\ (page = "quiz" => totalQuestions = 20)
    /\ 2 * (accuracy * 2000 - coins * 100) <= 2000
    /\ 2 * (coins * 100 - accuracy * 2000) < 2000
    /\ accuracy = 5 * CorrectCount(correctBefore, correctHere)
    /\ (accuracy = 100 <=> CorrectCount(correctBefore, correctHere) = 20)

\* a perfect session, at its completion modal: 100 per cent
C17_Witness ==
    /\ page = "quiz"
    /\ coins = 2000
    /\ accuracy = 100
    /\ CorrectCount(correctBefore, correctHere) = 20
    /\ showLevelCompleteModal

(***************************************************************************)
(* Properties of the leaderboard API route (checked under ApiSpec)         *)
(***************************************************************************)
\* a ranks at or above b: the order the route promises for adjacent entries
InRankOrder(a, b) ==
    \/ a.score > b.score
    \/ a.score = b.score /\ a.accuracy > b.accuracy
    \/ a.score = b.score /\ a.accuracy = b.accuracy /\ a.timeTaken <= b.timeTaken

\* C12: whatever is stored, the list a GET returns is ordered by score
\* descending, then accuracy descending, then timeTaken ascending: every
\* adjacent pair (a, b) is in rank order.
C12_ListIsRanked ==
    response.kind = "list" =>
        \A k \in 1..(Len(response.rows) - 1) :
            InRankOrder(response.rows[k], response.rows[k + 1])

\* the ordering example: stored as (90, 30), (90, 20), (95, 50), returned as
\* the third, the second, the first - by the file-backed handler
C12_Witness ==
    /\ backend = "file"
    /\ response.kind = "list"
    /\ Len(response.rows) = 3
    /\ store = ExampleStore("file")
    /\ response.rows = <<store[3], store[2], store[1]>>

\* a ranks strictly above b
StrictlyAbove(a, b) ==
    \/ a.score > b.score
    \/ a.score = b.score /\ a.accuracy > b.accuracy
    \/ a.score = b.score /\ a.accuracy = b.accuracy /\ a.timeTaken < b.timeTaken

Occurrences(rows, e) == Cardinality({j \in 1..Len(rows) : rows[j] = e})

\* the filter of a GET selects the stored entry e
Selects(level, e) ==
    \/ level \in {"all", "global"}
    \/ "level" \in e.present /\ e.level = level

Complete(entry) ==
    /\ "name" \in entry.present /\ entry.name # ""
    /\ {"score", "accuracy", "timeTaken"} \subseteq entry.present

HasAcceptedLevel(entry) ==
    "level" \in entry.present /\ entry.level \in {"beginner", "mid", "expert", "all"}

\* C14: a POST is accepted with 201 whenever name is non-empty and score,
\* accuracy and timeTaken are all present, a numeric 0 counting as present,
\* and is rejected with 400 when name is empty or one of the three is missing
\* (stated for bodies whose tier label is accepted, answered by a handler
\* whose storage is configured and up).
C14_AcceptsCompleteBodies ==
    [][ \A entry \in Bodies :
          (HandlePost(entry) /\ HasAcceptedLevel(entry)
                /\ response'.status \notin {500, 503}) =>
              IF Complete(entry) THEN response'.status = 201
                                 ELSE response'.status = 400
      ]_vars

\* C15: a POST whose tier label is missing or outside {beginner, mid,
\* expert, all} is rejected with 400 and nothing is stored (stated for a
\* handler whose storage is configured).
C15_RejectsUnknownTier ==
    [][ \A entry \in Bodies :
          (HandlePost(entry) /\ ~HasAcceptedLevel(entry)
                /\ backend # "db-unconfigured") =>
              (response'.status = 400 /\ store' = store)
      ]_vars

Ids(list) == {list[k].id : k \in 1..Len(list)}

C18_HandleNormalised ==
    /\ [](backend = "db" =>
            \A k \in 1..Len(store) :
                "twitterHandle" \in store[k].present =>
                    /\ store[k].twitterHandle # <<>>
                    /\ Head(store[k].twitterHandle) = "@")
    /\ [][ \A entry \in Bodies :
             (HandlePost(entry) /\ backend = "db" /\ response'.status = 201) =>
                 LET row == store'[Len(store')]
                     posted == entry.twitterHandle
                 IN  IF "twitterHandle" \notin entry.present \/ posted = <<>>
                     THEN "twitterHandle" \notin row.present
                     ELSE /\ "twitterHandle" \in row.present
                          /\ IF Head(posted) = "@"
                             THEN row.twitterHandle = posted
                             ELSE /\ Head(row.twitterHandle) = "@"
                                  /\ Tail(row.twitterHandle) = posted
                          /\ \A j \in 1..Len(store) :
                                ("twitterHandle" \in store[j].present
                                    /\ store[j].twitterHandle = posted) =>
                                        row.twitterHandle = posted
         ]_vars

\* "@al" stored first, then a body without a handle stored with a null handle
C18_Witness ==
    /\ backend = "db"
    /\ Len(store) = 2
    /\ "twitterHandle" \in store[1].present
    /\ store[1].twitterHandle = <<"@", "a", "l">>
    /\ "twitterHandle" \notin store[2].present
    /\ response.status = 201

(***************************************************************************)
(* Properties of the landing page (checked under HomeSpec)                 *)
(***************************************************************************)
\* C19: once loading has finished the social-proof strip has handles to
\* show, also when the endpoint returned none or the fetch failed (the dummy
\* handles stand in).
C19_StripNeverEmpty ==
    (homePage = "mounted" /\ ~loadingHandles) => DisplayedHandles # <<>>

(***************************************************************************)
(* Properties of the leaderboard page (checked under BoardSpec)            *)
(***************************************************************************)
\* C20: changing the filter while a fetch is in flight puts nothing at risk:
\* once no fetch is in flight the entries on display are those returned for
\* the selected filter, whatever the order of the responses, and loading is
\* false only when no fetch is outstanding.
C20_DisplayFollowsFilter ==
    boardPage = "mounted" =>
        /\ (fetches = <<>> /\ ~boardEffect /\ entriesFor # Null) =>
                entriesFor = LevelParam(filter)
        /\ ~loading => fetches = <<>>

\* C21: the session is complete (the completion modal is open for the expert
\* tier) only in states where all 20 question indices are in the answered set.
C21_CompleteOnlyWhenAllAnswered ==
    (page = "quiz" /\ showLevelCompleteModal /\ completedLevel = "expert") =>
        /\ answeredQuestions = 0..(totalQuestions - 1)
        /\ Cardinality(answeredQuestions) = 20

\* a second run of the same mount has been completed, with a wrong answer in it
C21_Witness ==
    /\ showLevelCompleteModal
    /\ completedLevel = "expert"
    /\ runs = 2
    /\ coins < 20 * COIN_REWARD
    /\ Cardinality(answeredQuestions) = 20

\* C22: the checkpoint modal for beginner (mid) opens only when Next is
\* pressed on the answered question at index 4 (11); the index never moves
\* from 4 to 5 or from 11 to 12 except by confirming that modal; confirming
\* sets the index to the first question of the next tier, clears the
\* selection, and leaves coins and the answered set unchanged.
CheckpointIndex(level) == IF level = "beginner" THEN 4 ELSE 11

C22_CheckpointRule ==
    [][/\ \A level \in {"beginner", "mid"} :
            (showLevelCompleteModal' /\ completedLevel' = level
                /\ ~(showLevelCompleteModal /\ completedLevel = level)) =>
                /\ handleNext
                /\ currentQuestionIndex = CheckpointIndex(level)
                /\ showExplanation
                /\ currentQuestionIndex \in answeredQuestions
                /\ currentQuestionIndex' = currentQuestionIndex
       /\ \A level \in {"beginner", "mid"} :
            (currentQuestionIndex = CheckpointIndex(level)
                /\ currentQuestionIndex' = CheckpointIndex(level) + 1) =>
                /\ handleProceedToNextLevel
                /\ showLevelCompleteModal
                /\ completedLevel = level
       /\ handleProceedToNextLevel =>
                /\ currentQuestionIndex' = CheckpointIndex(completedLevel) + 1
                /\ catalog[sessionQuestions[currentQuestionIndex' + 1]].difficulty # completedLevel
                /\ catalog[sessionQuestions[currentQuestionIndex + 1]].difficulty = completedLevel
                /\ selectedAnswer' = Null
                /\ ~showExplanation'
                /\ ~showLevelCompleteModal'
                /\ coins' = coins
                /\ answeredQuestions' = answeredQuestions]_vars

\* the mid checkpoint has just been confirmed: the first expert question is
\* shown unanswered, with the coins and answers of the first two tiers kept
C22_Witness ==
    /\ page = "quiz"
    /\ currentQuestionIndex = 12
    /\ ~showLevelCompleteModal
    /\ selectedAnswer = Null
    /\ ~showExplanation
    /\ answeredQuestions = 0..11
    /\ coins = 12 * COIN_REWARD

\* C23: handleStartOver, from any state in which it is offered (and no other
\* step closes the completion modal), sets the index
\* to 0, the coins to 0 and the answered set to empty, clears the selection,
\* hides the explanation and closes the completion modal.
C23_StartOverResets ==
    [][(handleStartOver \/ (StartOverOffered /\ ~showLevelCompleteModal')) =>
          /\ handleStartOver
          /\ currentQuestionIndex' = 0
          /\ coins' = 0
          /\ answeredQuestions' = {}
          /\ selectedAnswer' = Null
          /\ ~showExplanation'
          /\ ~showLevelCompleteModal'
          /\ completedLevel' = Null]_vars

\* Start Over has acted on a completed session: the second run shows
\* question 0 with nothing answered and no coins
C23_Witness ==
    /\ page = "quiz"
    /\ runs = 2
    /\ completedAt = NullTime
    /\ currentQuestionIndex = 0
    /\ coins = 0
    /\ answeredQuestions = {}
    /\ selectedAnswer = Null
    /\ ~showExplanation
    /\ ~showLevelCompleteModal
    /\ completedLevel = Null
    /\ Truthy(endTime)

\* C24: shuffleOptions puts optionA on one side and optionB on the other, and
\* correctAnswer names the side holding optionA; the placement is fixed from
\* the moment the question is displayed until the question index changes
\* (answering and re-renders do not reshuffle).
PlacementOf(q, placement) ==
    \/ /\ placement.leftOption = optionA(q)
       /\ placement.rightOption = optionB(q)
       /\ placement.correctAnswer = "left"
    \/ /\ placement.leftOption = optionB(q)
       /\ placement.rightOption = optionA(q)
       /\ placement.correctAnswer = "right"

C24_PlacementFixedPerQuestion ==
    /\ [](page = "quiz" => PlacementOf(currentQuestion, shuffledOptions))
    /\ [][(page = "quiz" /\ currentQuestionIndex' = currentQuestionIndex) =>
              shuffledOptions' = shuffledOptions]_vars

\* a question whose correct picture was placed on the right has been answered
\* (wrongly, on the left) and is still displayed with the same placement
C24_Witness ==
    /\ page = "quiz"
    /\ currentQuestionIndex = 3
    /\ showExplanation
    /\ selectedAnswer = "left"
    /\ ~effectPending
    /\ shuffledOptions.correctAnswer = "right"
    /\ shuffledOptions.rightOption = optionA(currentQuestion)
    /\ shuffledOptions.leftOption = optionB(currentQuestion)

(***************************************************************************)
(* Properties of shuffleArray and shuffleOptions (checked under            *)
(* ShuffleSpec)                                                            *)
(***************************************************************************)
\* how often x occurs in the array a
CountIn(a, x) == Cardinality({k \in DOMAIN a : a[k] = x})

IsPermutationOf(b, a) ==
    /\ Len(b) = Len(a)
    /\ \A k \in DOMAIN a : CountIn(b, a[k]) = CountIn(a, a[k])

Distinct(a) == \A k, l \in DOMAIN a : a[k] = a[l] => k = l

\* all orderings of the array a
Orderings(a) ==
    {[k \in DOMAIN a |-> a[f[k]]] :
        f \in {g \in [DOMAIN a -> DOMAIN a] : \A k, l \in DOMAIN a : g[k] = g[l] => k = l}}

\* every sequence of draws one call on n elements can make
DrawSeqs(n) ==
    {js \in [1..(n - 1) -> 0..(n - 1)] : \A i \in 1..(n - 1) : js[i] \in DrawRange(i, n)}

\* C25: shuffleArray returns a permutation of its input and leaves the input
\* unchanged, and it is uniform: for n distinct elements each of the n!
\* orderings is produced by exactly one sequence of draws j in 0..i; for
\* shuffleOptions, left-correct and right-correct each arise from exactly
\* one of the two draws.
C25_ShuffleIsUniformPermutation ==
    /\ [](shPc = "returned" =>
            /\ IsPermutationOf(shShuffled, shArray)
            /\ shShuffled = shuffleArray(shArray, shDraws)
            /\ Distinct(shArray) =>
                  \A p \in Orderings(shArray) :
                      Cardinality({js \in DrawSeqs(Len(shArray)) :
                                      shuffleArray(shArray, js) = p}) = 1
            /\ shCaller = "options" =>
                  /\ shResult = shuffleOptions(shArray[1].value, shArray[2].value, shDraws)
                  /\ PlacementOf(shArray[1].value[1], shResult)
                  /\ \A side \in {"left", "right"} :
                        Cardinality({js \in OptionDraws :
                            shuffleOptions(shArray[1].value, shArray[2].value, js).correctAnswer
                                = side}) = 1)
    /\ [][shArray' = shArray]_vars

\* a call on three distinct elements has returned them reversed, the input
\* still being in its original order
C25_Witness ==
    /\ shPc = "returned"
    /\ shCaller = "array"
    /\ shArray = <<1, 2, 3>>
    /\ shShuffled = <<3, 2, 1>>


(***************************************************************************)
(* Properties of concurrent POSTs to the file-backed route (checked under  *)
(* RequestsSpec)                                                           *)
(***************************************************************************)
Accepted == {r \in Requests : reqStatus[r] = 201}

\* entries of the store that were not there when the requests arrived
NewEntries == {k \in 1..Len(store) : store[k].id >= ServerEpoch}

C27_AnsweredIsPrefix ==
    /\ [](page = "quiz" =>
            answeredQuestions =
                {k \in 0..(totalQuestions - 1) :
                    k < currentQuestionIndex \/ (k = currentQuestionIndex /\ showExplanation)})
    /\ [][currentQuestionIndex' > currentQuestionIndex =>
              /\ currentQuestionIndex' = currentQuestionIndex + 1
              /\ showExplanation
              /\ currentQuestionIndex \in answeredQuestions]_vars

\* the seventh question has just been answered, wrongly: indices 0..6 are
\* answered and the explanation is shown
C27_Witness ==
    /\ page = "quiz"
    /\ currentQuestionIndex = 6
    /\ showExplanation
    /\ selectedAnswer # shuffledOptions.correctAnswer
    /\ answeredQuestions = 0..6
    /\ coins = 6 * COIN_REWARD

(***************************************************************************)
(* Progress of a session (checked under ProgressSpec)                      *)
(***************************************************************************)
Completed == page = "quiz" /\ showLevelCompleteModal /\ completedLevel = "expert"

StartUpModalsClosed == ~showInstructionModal /\ ~showNameInputModal

\* the scheduled effect, if any, can run, and then the control is usable
UsableAfterEffect(control) == IF effectPending THEN ENABLED AutoSubmitEffect ELSE control

\* C28: no reachable quiz state before the completion of the session is
\* stuck: an unanswered question can always be answered once the start-up
\* modals are closed, an answered non-final question always offers Next or a
\* checkpoint confirmation, and answering the final question always leads to
\* the completion modal; so if the user keeps acting and pending timers
\* fire, the session eventually reaches its completion.
C28_SessionProgresses ==
    /\ []((page = "quiz" /\ ~Completed) =>
            /\ (StartUpModalsClosed /\ ~showExplanation) =>
                  UsableAfterEffect(\A side \in {"left", "right"} :
                                        ENABLED (handleSelect(side) /\ showExplanation'))
            /\ (StartUpModalsClosed /\ showExplanation /\ ~isLastQuestion) =>
                  UsableAfterEffect(ENABLED handleNext \/ ENABLED handleProceedToNextLevel)
            /\ (showExplanation /\ isLastQuestion) =>
                  /\ completionTimer
                  /\ UsableAfterEffect(ENABLED (CompletionTimerFires /\ Completed')))
    /\ (page = "quiz") ~> Completed

\* a session in which every answer was wrong has reached the completion modal
C28_Witness ==
    /\ Completed
    /\ coins = 0
    /\ answeredQuestions = 0..19
    /\ ~effectPending


\* C29: the identity-capture modal opens only after the instructions have been
\* dismissed and closes only by submitting a non-blank (trimmed) name, a
\* blank submit changing nothing; hence whenever startTime is set the name is
\* non-blank, and every payload carries a non-empty name.
C29_NameModalRule ==
    /\ [][/\ (showNameInputModal' /\ ~showNameInputModal) =>
                /\ handleStartTraining
                /\ showInstructionModal
                /\ ~showInstructionModal'
          /\ (showNameInputModal /\ ~showNameInputModal') =>
                /\ handleNameSubmit
                /\ Trim(playerName) # <<>>
                /\ playerName' = playerName
                /\ startTime' = now
          /\ (handleNameSubmit /\ Trim(playerName) = <<>>) => UNCHANGED vars
          /\ startTime' # startTime => (showNameInputModal /\ ~showNameInputModal')]_vars
    /\ [](page = "quiz" =>
            /\ ~(showInstructionModal /\ showNameInputModal)
            /\ startTime # NullTime => Trim(playerName) # <<>>
            /\ request # NoRequest => request.name # <<>>)

\* a name typed with blanks around it was accepted and the finished session
\* has posted it trimmed
C29_Witness ==
    /\ page = "quiz"
    /\ playerName = <<" ", "A", "l", " ">>
    /\ startTime # NullTime
    /\ request # NoRequest
    /\ request.name = <<"A", "l">>

(***************************************************************************)
(* Properties of the connection pool module (checked under PoolSpec)       *)
(***************************************************************************)
\* C30: between resets every getDbPool call returns the same pool instance,
\* and an error event resets the module-level handle only for the pool that
\* is current: a late error event from a pool that has already been replaced
\* leaves the newer pool as the current handle.
C30_ErrorResetsOnlyCurrentPool ==
    /\ [](Cardinality(poolCalls \ {Threw}) <= 1)
    /\ [][\A p \in 1..MaxPools :
            (PoolError(p) /\ pool # NoPool /\ p # pool) => pool' = pool]_vars


(***************************************************************************)
(* Session selection on its own: every catalog of the family, every tape.  *)
(***************************************************************************)
SelNext == MountQuiz \/ MountCrash

SelSpec == SelInit /\ [][SelNext]_vars

TierRank(d) == CASE d = "beginner" -> 1 [] d = "mid" -> 2 [] d = "expert" -> 3 [] OTHER -> 0

TierAt(k) == IF k < 5 THEN "beginner" ELSE IF k < 12 THEN "mid" ELSE "expert"

\* C8: whenever getRandomizedQuestions returns, the session list has exactly
\* 20 entries, each a catalog question, no question twice, indices 0-4
\* beginner, 5-11 mid, 12-19 expert, hence tier rank non-decreasing.
C8_SessionShape ==
    page = "quiz" =>
        /\ Len(sessionQuestions) = 20
        /\ \A k \in 1..Len(sessionQuestions) :
              /\ sessionQuestions[k] \in 1..Len(catalog)
              /\ catalog[sessionQuestions[k]].difficulty = TierAt(k - 1)
        /\ \A k, l \in 1..Len(sessionQuestions) :
              /\ (k # l => sessionQuestions[k] # sessionQuestions[l])
              /\ (k < l => TierRank(catalog[sessionQuestions[k]].difficulty)
                              <= TierRank(catalog[sessionQuestions[l]].difficulty))

C8_Witness ==
    /\ page = "quiz"
    /\ catalog = MixedCatalog
    /\ Len(sessionQuestions) = 20
    /\ \E k \in 1..5 : catalog[sessionQuestions[k]].type = "typeface"
    /\ sessionQuestions[1] # 1

\* Number of catalog questions of a tier and a type, counted on the catalog.
PoolSize(c, d, t) ==
    Cardinality({k \in 1..Len(c) : c[k].difficulty = d /\ c[k].type = t})

LacksTag(c) == \E k \in 1..Len(c) : c[k].difficulty = NoDifficulty

WrongComposition(c) ==
    \/ PoolSize(c, "beginner", "image") # 15 \/ PoolSize(c, "beginner", "typeface") # 5
    \/ PoolSize(c, "mid", "image") # 12      \/ PoolSize(c, "mid", "typeface") # 8
    \/ PoolSize(c, "expert", "image") # 13   \/ PoolSize(c, "expert", "typeface") # 7

\* C9: construction fails - no session list, no question on display - exactly
\* when some catalog question lacks its difficulty tag or some tier's
\* image/typeface counts differ from 15/5, 12/8, 13/7.
C9_FailsIffDefective ==
    page # "unmounted" =>
        /\ (page = "crashed") <=> (LacksTag(catalog) \/ WrongComposition(catalog))
        /\ page = "crashed" => sessionQuestions = <<>> /\ shuffledOptions = Null
        /\ page = "quiz" => sessionQuestions # <<>>

C9_Witness ==
    /\ page = "crashed"
    /\ ~LacksTag(catalog)
    /\ WrongComposition(catalog)
    /\ sessionQuestions = <<>>

====
